---------------------------- MODULE Spec2Model ----------------------------
(***************************************************************************)
(* A model of the rating and ranking engine of rank_llms:                  *)
(*   - the ELO rating store            (rank_llms/elo.py)                  *)
(*   - the Bradley-Terry estimator     (rank_llms/bradley_terry.py)        *)
(*   - the direct comparison ranking   (rank_llms/direct_comparison.py)    *)
(*   - the focus ranking               (rank_llms/focus_rank.py)           *)
(*   - the confidence / gap analyzer   (rank_llms/analyzer.py)             *)
(* over the archive of stored comparison results (rank_llms/compare.py).   *)
(*                                                                         *)
(* Each component is one variable holding the fields of its Python object. *)
(* Each component has its own specification (SpecElo, SpecBT, ...) in which*)
(* the other components stay in their constructed state.                   *)
(*                                                                         *)
(* Arithmetic.  The Python code computes in binary floating point.  The    *)
(* ELO store is modelled in fixed point (Scale units per 1.0) because the  *)
(* logistic curve is irrational; ratios, probabilities and Bradley-Terry   *)
(* strengths are modelled as exact reduced fractions <<num, den>>.         *)
(* Floating-point rounding is therefore not part of the model.             *)
(***************************************************************************)
EXTENDS Integers, Sequences, FiniteSets, TLC

VARIABLES
    archive,    \* test_archive/<promptset>/comparisons/*.json
    elo,        \* an EloRatingSystem instance
    bt,         \* a BradleyTerryModel instance (and the position inside fit)
    direct,     \* a DirectComparisonRanking instance
    focus,      \* a FocusRanking instance
    analyzer,   \* a ConfidenceAnalyzer instance
    ratings_file, \* the ELO ratings file (leaderboard/elo_ratings.json)
    call        \* the last call made on a component: its arguments and result

vars == <<archive, elo, bt, direct, focus, analyzer, ratings_file, call>>

---------------------------------------------------------------------------
(* Model identifiers and Python's None.                                    *)

\* The model identifiers used by the checks.  They contain none of the
\* characters ':', '/' and '_' that the file naming of compare.py rewrites.
Models == {"A", "B", "C"}

\* Python's sorted() on these identifiers: the position in lexicographic order.
ModelRank == [m \in Models |-> CASE m = "A" -> 1 [] m = "B" -> 2 [] OTHER -> 3]

ModelsSorted == <<"A", "B", "C">>

None == "None"

\* Python's None where the value is otherwise a record, a frame or a number.
Null == << >>

Abs(x) == IF x < 0 THEN -x ELSE x

Max2(x, y) == IF x >= y THEN x ELSE y

RECURSIVE GCD(_, _)
GCD(a, b) == IF b = 0 THEN a ELSE GCD(b, a % b)

RECURSIVE SumSeq(_)
SumSeq(s) == IF s = <<>> THEN 0 ELSE Head(s) + SumSeq(Tail(s))

---------------------------------------------------------------------------
(* Exact fractions <<num, den>>, reduced, den > 0: the values of the floats *)
(* whose arithmetic is rational.  NaR stands for a value whose reduced     *)
(* numerator or denominator exceeds MaxMagnitude: the model follows a      *)
(* computation only while its values are representable.                    *)

\* The largest numerator or denominator of a fraction the model represents.
MaxMagnitude == 30000

NaR == <<0, 0>>

IsRep(r) == r[2] > 0

Zero == <<0, 1>>

One == <<1, 1>>

\* The fraction a / b of two integers, b # 0.
Frac(a, b) ==
    LET g  == GCD(Abs(a), Abs(b))
        sn == IF b < 0 THEN -1 ELSE 1
        n  == sn * (a \div g)
        d  == sn * (b \div g)
    IN  IF Abs(n) > MaxMagnitude \/ d > MaxMagnitude THEN NaR ELSE <<n, d>>

RAdd(p, q) ==
    IF ~IsRep(p) \/ ~IsRep(q) THEN NaR ELSE Frac(p[1] * q[2] + q[1] * p[2], p[2] * q[2])

RSub(p, q) == RAdd(p, <<-q[1], q[2]>>)

RMul(p, q) ==
    IF ~IsRep(p) \/ ~IsRep(q) THEN NaR ELSE Frac(p[1] * q[1], p[2] * q[2])

\* p / q for q # 0.
RDiv(p, q) ==
    IF ~IsRep(p) \/ ~IsRep(q) THEN NaR ELSE Frac(p[1] * q[2], p[2] * q[1])

RIsZero(p) == p[1] = 0

RPositive(p) == p[1] > 0

RLess(p, q) == p[1] * q[2] < q[1] * p[2]

RECURSIVE RSumSeq(_)
RSumSeq(s) == IF s = <<>> THEN Zero ELSE RAdd(Head(s), RSumSeq(Tail(s)))

AllRep(s) == \A i \in 1..Len(s) : IsRep(s[i])

---------------------------------------------------------------------------
(* ELO rating system: rank_llms/elo.py                                     *)

DEFAULT_K == 32

DEFAULT_STARTING_ELO == 1400

\* Fixed-point resolution of the ELO store's floats: Scale units make 1.0.
Scale == 10000

\* The most register_match_result calls made on one EloRatingSystem.
MaxMatches == 2

\* The (wins_a, wins_b, draws) batches passed to register_match_result.
Batches == {<<0, 0, 0>>, <<1, 0, 0>>, <<0, 2, 0>>, <<0, 0, 1>>, <<2, 1, 1>>, <<10, 0, 0>>}

\* EloRatingSystem.__init__
EloNew(k_factor, starting_elo, promptset) ==
    [k_factor      |-> k_factor,
     starting_elo  |-> starting_elo * Scale,
     promptset     |-> promptset,
     ratings       |-> << >>,
     match_history |-> << >>]

\* get_rating: self.ratings.get(model, self.starting_elo)
GetRating(sys, model) ==
    IF model \in DOMAIN sys.ratings THEN sys.ratings[model] ELSE sys.starting_elo

\* e^(x / Scale) in fixed point, for 0 <= x <= 2 * Scale, by its power series
\* (term k is term k-1 times x / k); the terms vanish before k = 24.
RECURSIVE ExpSeries(_, _, _, _)
ExpSeries(x, k, term, acc) ==
    IF term = 0 \/ k > 24 THEN acc
    ELSE LET next == (term * x) \div (k * Scale)
         IN  ExpSeries(x, k + 1, next, acc + next)

\* math.pow(10, d / 400.0) for a rating difference d (in Scale units):
\* 10^(d/400) = e^(d * ln(10) / 400) and ln(10) / 400 = 1 / 173.72.
Pow10Div400(d) ==
    LET x == (Abs(d) * 100) \div 17372
        e == ExpSeries(x, 1, Scale, Scale)
    IN  IF d >= 0 THEN e ELSE (Scale * Scale) \div e

\* A plausible slip in expected_score: the opponent's rating is taken to be
\* the starting value instead of its stored rating.
ExpectedScoreAgainstStart(sys, model_a, model_b) ==
    LET rating_a == GetRating(sys, model_a)
        rating_b == sys.starting_elo
    IN  (Scale * Scale) \div (Scale + Pow10Div400(rating_b - rating_a))

\* expected_score: 1.0 / (1.0 + math.pow(10, (rating_b - rating_a) / 400.0))
ExpectedScore(sys, model_a, model_b) ==
    LET rating_a == GetRating(sys, model_a)
        rating_b == GetRating(sys, model_b)
    IN  (Scale * Scale) \div (Scale + Pow10Div400(rating_b - rating_a))

\* self.ratings[model] = rating
SetRating(ratings, model, rating) ==
    [m \in (DOMAIN ratings) \cup {model} |-> IF m = model THEN rating ELSE ratings[m]]

\* A plausible slip in update_ratings: model_b's expectation taken to be
\* model_a's (expected_b = expected_a).
UpdateRatingsSameExpectation(sys, model_a, model_b, score_a, category) ==
    LET rating_a     == GetRating(sys, model_a)
        rating_b     == GetRating(sys, model_b)
        expected_a   == ExpectedScore(sys, model_a, model_b)
        new_rating_a == rating_a + sys.k_factor * (score_a - expected_a)
        new_rating_b == rating_b + sys.k_factor * ((Scale - score_a) - expected_a)
    IN  [sys EXCEPT
           !.ratings = SetRating(SetRating(sys.ratings, model_a, new_rating_a), model_b, new_rating_b),
           !.match_history = Append(@,
               [model_a |-> model_a, model_b |-> model_b,
                old_rating_a |-> rating_a, old_rating_b |-> rating_b,
                new_rating_a |-> new_rating_a, new_rating_b |-> new_rating_b,
                score_a |-> score_a, category |-> category])]

\* A plausible slip in update_ratings: only the rating of model_a is stored.
UpdateRatingsFirstOnly(sys, model_a, model_b, score_a, category) ==
    LET rating_a     == GetRating(sys, model_a)
        rating_b     == GetRating(sys, model_b)
        expected_a   == ExpectedScore(sys, model_a, model_b)
        expected_b   == Scale - expected_a
        new_rating_a == rating_a + sys.k_factor * (score_a - expected_a)
        new_rating_b == rating_b + sys.k_factor * ((Scale - score_a) - expected_b)
    IN  [sys EXCEPT
           !.ratings = SetRating(sys.ratings, model_a, new_rating_a),
           !.match_history = Append(@,
               [model_a |-> model_a, model_b |-> model_b,
                old_rating_a |-> rating_a, old_rating_b |-> rating_b,
                new_rating_a |-> new_rating_a, new_rating_b |-> new_rating_b,
                score_a |-> score_a, category |-> category])]

\* update_ratings: the two assignments to self.ratings happen in this order,
\* so for model_a = model_b the second one is the one that stays.
UpdateRatings(sys, model_a, model_b, score_a, category) ==
    LET rating_a     == GetRating(sys, model_a)
        rating_b     == GetRating(sys, model_b)
        expected_a   == ExpectedScore(sys, model_a, model_b)
        expected_b   == Scale - expected_a
        new_rating_a == rating_a + sys.k_factor * (score_a - expected_a)
        new_rating_b == rating_b + sys.k_factor * ((Scale - score_a) - expected_b)
    IN  [sys EXCEPT
           !.ratings = SetRating(SetRating(sys.ratings, model_a, new_rating_a), model_b, new_rating_b),
           !.match_history = Append(@,
               [model_a |-> model_a, model_b |-> model_b,
                old_rating_a |-> rating_a, old_rating_b |-> rating_b,
                new_rating_a |-> new_rating_a, new_rating_b |-> new_rating_b,
                score_a |-> score_a, category |-> category])]

\* A plausible slip in register_match_result: the early return for a batch
\* with no comparisons is left out and the empty batch is scored as a draw.
RegisterMatchResultEmptyAsDraw(sys, model_a, model_b, wins_a, wins_b, draws, category) ==
    LET total_matches == wins_a + wins_b + draws
        score_a == IF total_matches = 0 THEN Scale \div 2
                   ELSE ((2 * wins_a + draws) * Scale) \div (2 * total_matches)
    IN  UpdateRatings(sys, model_a, model_b, score_a, category)

\* A plausible slip in register_match_result: one update per comparison of
\* the batch (wins of model_a first, then wins of model_b, then draws)
\* instead of one update for the batch.
RECURSIVE UpdatePerComparison(_, _, _, _, _, _, _)
UpdatePerComparison(sys, model_a, model_b, wins_a, wins_b, draws, category) ==
    IF wins_a > 0
    THEN UpdatePerComparison(UpdateRatings(sys, model_a, model_b, Scale, category),
                             model_a, model_b, wins_a - 1, wins_b, draws, category)
    ELSE IF wins_b > 0
    THEN UpdatePerComparison(UpdateRatings(sys, model_a, model_b, 0, category),
                             model_a, model_b, wins_a, wins_b - 1, draws, category)
    ELSE IF draws > 0
    THEN UpdatePerComparison(UpdateRatings(sys, model_a, model_b, Scale \div 2, category),
                             model_a, model_b, wins_a, wins_b, draws - 1, category)
    ELSE sys

\* register_match_result: a batch with no comparisons is logged and ignored.
RegisterMatchResult(sys, model_a, model_b, wins_a, wins_b, draws, category) ==
    LET total_matches == wins_a + wins_b + draws
    IN  IF total_matches = 0 THEN sys
        ELSE LET score_a == ((2 * wins_a + draws) * Scale) \div (2 * total_matches)
             IN  UpdateRatings(sys, model_a, model_b, score_a, category)

\* The default of the promptset parameter of __init__ and load_ratings.
DefaultPromptset == "basic1"

\* The promptset labels passed to load_ratings.
Promptsets == {"basic1", "test"}

\* The longest match history of a system that is saved and loaded: a system
\* holding this many records registers no further match.
MaxStoredMatches == 2

\* The (wins_a, wins_b, draws) batches registered on a system that is saved
\* and loaded.
StoredBatches == {<<0, 0, 0>>, <<2, 1, 1>>}

\* The ratings file as the program sees it: path.exists(), whether json.load
\* accepts its text, and the document json.load returns.
AbsentFile == [exists |-> FALSE, parses |-> FALSE, data |-> << >>]

CorruptFile == [exists |-> TRUE, parses |-> FALSE, data |-> << >>]

JsonFile(data) == [exists |-> TRUE, parses |-> TRUE, data |-> data]

\* JSON values as json.dump writes them: the literal null (<<"null">>), a quoted string,
\* and a number as its decimal text, a sign and the digits from the most
\* significant one (ratings and scores are written in units of 1/Scale).
\* Objects are functions on their keys and arrays are sequences.
JsonString(s) == <<"string", s>>

JsonNumber(n) ==
    LET RECURSIVE Digits(_)
        Digits(m) == IF m < 10 THEN <<m>> ELSE Append(Digits(m \div 10), m % 10)
    IN  <<"number", n < 0, Digits(Abs(n))>>

\* json.dump of an Optional[str]: None is written as null.
DumpOptionalString(s) == IF s = None THEN <<"null">> ELSE JsonString(s)

\* json.load of a null, a string or a number: the decimal text of a number
\* is read digit by digit.
LoadScalar(j) ==
    IF j[1] = "null" THEN None
    ELSE IF j[1] = "string" THEN j[2]
    ELSE LET RECURSIVE Value(_)
             Value(digits) ==
                 IF digits = << >> THEN 0
                 ELSE 10 * Value(SubSeq(digits, 1, Len(digits) - 1)) + digits[Len(digits)]
         IN  IF j[2] THEN 0 - Value(j[3]) ELSE Value(j[3])

\* json.dump of one match_history entry.
DumpMatch(match) ==
    [model_a      |-> JsonString(match.model_a),
     model_b      |-> JsonString(match.model_b),
     old_rating_a |-> JsonNumber(match.old_rating_a),
     old_rating_b |-> JsonNumber(match.old_rating_b),
     new_rating_a |-> JsonNumber(match.new_rating_a),
     new_rating_b |-> JsonNumber(match.new_rating_b),
     score_a      |-> JsonNumber(match.score_a),
     category     |-> DumpOptionalString(match.category)]

\* json.load of one match_history entry.
LoadMatch(j) == [key \in DOMAIN j |-> LoadScalar(j[key])]

\* save_ratings: the file written for the system.
SaveRatings(sys) ==
    JsonFile([ratings       |-> [m \in DOMAIN sys.ratings |-> JsonNumber(sys.ratings[m])],
              k_factor      |-> JsonNumber(sys.k_factor),
              starting_elo  |-> JsonNumber(sys.starting_elo),
              promptset     |-> DumpOptionalString(sys.promptset),
              match_history |-> [i \in 1..Len(sys.match_history) |->
                                    DumpMatch(sys.match_history[i])]])

\* data.get(key, default) on the loaded document.
DataGet(data, key, default) == IF key \in DOMAIN data THEN data[key] ELSE default

\* A plausible slip in load_ratings: the match history is rebuilt newest
\* first.
LoadRatingsNewestFirst(file, promptset) ==
    IF ~file.exists THEN EloNew(DEFAULT_K, DEFAULT_STARTING_ELO, promptset)
    ELSE IF ~file.parses THEN EloNew(DEFAULT_K, DEFAULT_STARTING_ELO, DefaultPromptset)
    ELSE LET data           == file.data
             file_promptset == LoadScalar(DataGet(data, "promptset",
                                                  DumpOptionalString(promptset)))
             ratings        == DataGet(data, "ratings", << >>)
             history        == DataGet(data, "match_history", << >>)
         IN  [k_factor      |-> LoadScalar(DataGet(data, "k_factor", JsonNumber(DEFAULT_K))),
              starting_elo  |-> LoadScalar(DataGet(data, "starting_elo",
                                                   JsonNumber(DEFAULT_STARTING_ELO * Scale))),
              promptset     |-> file_promptset,
              ratings       |-> [m \in DOMAIN ratings |-> LoadScalar(ratings[m])],
              match_history |-> [i \in 1..Len(history) |->
                                    LoadMatch(history[Len(history) + 1 - i])]]

\* load_ratings: a fresh system for a file that does not exist, the file's
\* system (every missing key defaulted) for a JSON document, and cls() for a
\* file json.load rejects.
LoadRatings(file, promptset) ==
    IF ~file.exists THEN EloNew(DEFAULT_K, DEFAULT_STARTING_ELO, promptset)
    ELSE IF ~file.parses THEN EloNew(DEFAULT_K, DEFAULT_STARTING_ELO, DefaultPromptset)
    ELSE LET data           == file.data
             file_promptset == LoadScalar(DataGet(data, "promptset",
                                                  DumpOptionalString(promptset)))
             ratings        == DataGet(data, "ratings", << >>)
             history        == DataGet(data, "match_history", << >>)
         IN  [k_factor      |-> LoadScalar(DataGet(data, "k_factor", JsonNumber(DEFAULT_K))),
              starting_elo  |-> LoadScalar(DataGet(data, "starting_elo",
                                                   JsonNumber(DEFAULT_STARTING_ELO * Scale))),
              promptset     |-> file_promptset,
              ratings       |-> [m \in DOMAIN ratings |-> LoadScalar(ratings[m])],
              match_history |-> [i \in 1..Len(history) |-> LoadMatch(history[i])]]

\* No call made yet.
NoCall == [op |-> None]

---------------------------------------------------------------------------
(* Bradley-Terry estimator: rank_llms/bradley_terry.py                     *)

\* The largest entry of a win matrix handed to fit.
MaxWins == 1

\* The largest max_iterations a BradleyTerryModel is constructed with.
MaxIter == 2

\* The default max_iterations of BradleyTerryModel.
DefaultMaxIterations == 100

\* 1 / convergence_threshold: the default threshold is 1e-6.
ConvergenceInverse == 1000000

\* The index (list of models) of the win matrices handed to fit.
BTModelLists == {<<"A", "B">>, <<"A", "B", "C">>}

\* The win matrices over n models: non-negative counts, zero diagonal (a
\* model is not compared with itself).  W[i][j] = wins of row i over column j.
WinMatrices(n) ==
    LET off == {p \in (1..n) \X (1..n) : p[1] # p[2]}
    IN  {[i \in 1..n |-> [j \in 1..n |-> IF i = j THEN 0 ELSE f[<<i, j>>]]] :
            f \in [off -> 0..MaxWins]}

\* total_comparisons of model i: the sum over j # i of W[i][j] + W[j][i].
RECURSIVE TotalComparisons(_, _, _)
TotalComparisons(W, i, j) ==
    IF j = 0 THEN 0
    ELSE (IF j # i THEN W[i][j] + W[j][i] ELSE 0) + TotalComparisons(W, i, j - 1)

\* wins_i = win_matrix.iloc[i, :].sum()
WinsOf(W, i) == SumSeq(W[i])

\* A pair of zero strengths with matches makes numpy divide 0.0 by 0.0:
\* the term, and with it denominator_sum, is nan.
DenominatorIsNan(W, s, i) ==
    \E j \in 1..Len(s) :
        j # i /\ W[i][j] + W[j][i] > 0 /\ RIsZero(RAdd(s[i], s[j]))

\* denominator_sum: the sum over j # i with pair_matches > 0 of
\* pair_matches * strengths[j] / (strengths[i] + strengths[j]).
RECURSIVE DenominatorSum(_, _, _, _)
DenominatorSum(W, s, i, j) ==
    IF j = 0 THEN Zero
    ELSE LET pair_matches == W[i][j] + W[j][i]
             term == IF j # i /\ pair_matches > 0
                     THEN RDiv(RMul(<<pair_matches, 1>>, s[j]), RAdd(s[i], s[j]))
                     ELSE Zero
         IN  RAdd(term, DenominatorSum(W, s, i, j - 1))

\* new_strengths[i] of one sweep, before normalisation (a comparison with
\* nan is False, so a nan denominator keeps the strength).
NewStrength(W, s, i) ==
    IF TotalComparisons(W, i, Len(s)) = 0 THEN s[i]
    ELSE IF DenominatorIsNan(W, s, i) THEN s[i]
    ELSE LET denominator_sum == DenominatorSum(W, s, i, Len(s))
         IN  IF ~IsRep(denominator_sum) THEN NaR
             ELSE IF RPositive(denominator_sum)
                  THEN RDiv(<<WinsOf(W, i), 1>>, denominator_sum)
                  ELSE s[i]

\* A plausible slip: the sweep's result is not normalised.
NormalizeOmitted(v) == v

\* new_strengths = new_strengths / new_strengths.sum()
Normalize(v) ==
    LET total == RSumSeq(v)
    IN  [i \in 1..Len(v) |-> IF IsRep(total) /\ ~RIsZero(total) THEN RDiv(v[i], total) ELSE NaR]

\* One sweep of the loop of fit: the normalised new strengths.
Sweep(W, s) == Normalize([i \in 1..Len(s) |-> NewStrength(W, s, i)])

\* abs(p - q) < convergence_threshold
Within(p, q) ==
    LET num == Abs(p[1] * q[2] - q[1] * p[2])
        den == p[2] * q[2]
    IN  num = 0 \/ num <= (den - 1) \div ConvergenceInverse

\* np.max(np.abs(new_strengths - strengths)) < self.convergence_threshold
Converged(new, s) == \A i \in 1..Len(s) : Within(new[i], s[i])

\* fit, up to the loop: strengths = np.ones(n_models) / n_models
FitStart(self, win_matrix, models) ==
    [self EXCEPT !.pc = "fitting", !.iteration = 0,
                 !.win_matrix = win_matrix, !.models = models,
                 !.work = [i \in 1..Len(models) |-> Frac(1, Len(models))]]

\* fit, after the loop: self.strengths = {model: strength}
FitStore(self, strengths) ==
    [self EXCEPT !.pc = "fitted", !.strengths = strengths]

\* probability_matrix(): the exception it raises (None when it returns) and
\* the matrix it returns.  The stored strengths are Python floats, so
\* p_i / (p_i + p_j) of two zero strengths raises ZeroDivisionError.
ProbabilityMatrix(self) ==
    LET n == Len(self.models)
    IN  IF self.strengths = << >>
        THEN [raised |-> "ValueError", matrix |-> << >>]
        ELSE IF \E i \in 1..n, j \in 1..n :
                    i # j /\ RIsZero(RAdd(self.strengths[i], self.strengths[j]))
        THEN [raised |-> "ZeroDivisionError", matrix |-> << >>]
        ELSE [raised |-> None,
              matrix |-> [i \in 1..n |-> [j \in 1..n |->
                            IF i = j THEN Frac(1, 2)
                            ELSE RDiv(self.strengths[i],
                                      RAdd(self.strengths[i], self.strengths[j]))]]]

---------------------------------------------------------------------------
(* The archive of stored comparison results: rank_llms/compare.py          *)

\* get_comparison_file_path: the file of a pair is named by the two model
\* names in sorted order, whatever the order of the arguments.
PairKey(model_a, model_b) ==
    IF ModelRank[model_a] <= ModelRank[model_b] THEN <<model_a, model_b>> ELSE <<model_b, model_a>>

\* The file names a promptset's comparisons directory can hold.
PairKeys == {PairKey(p[1], p[2]) : p \in {q \in Models \X Models : q[1] # q[2]}}

\* get_prompt_categories(promptset): the categories of the promptset, here
\* those of the promptset "test".
PromptCategories == <<"Test Category 1", "Test Category 2">>

CategorySet == {PromptCategories[i] : i \in 1..Len(PromptCategories)}

\* The category_results a stored ComparisonResult holds in the checks, each
\* category with its <<wins_a, wins_b, ties>>: overall 7-3-0, 6-2-2, 0-2-0
\* and a result without any comparison.
CategoryResults ==
    { [c \in CategorySet |-> IF c = PromptCategories[1] THEN <<7, 3, 0>> ELSE <<0, 0, 0>>],
      [c \in CategorySet |-> IF c = PromptCategories[1] THEN <<4, 1, 1>> ELSE <<2, 1, 1>>],
      [c \in CategorySet |-> <<0, 1, 0>>],
      [c \in CategorySet |-> <<0, 0, 0>>] }

\* The ComparisonResult records the file of pair key k can hold: main.py
\* stores model_a and model_b in the order of the command line, the file
\* name has them sorted.
RecordsOf(k) ==
    {[model_a |-> ab[1], model_b |-> ab[2], category_results |-> cr] :
        ab \in {k, <<k[2], k[1]>>}, cr \in CategoryResults}

\* The archives: each pair's file is absent (Null) or holds one record.
Archives == {a \in [PairKeys -> UNION {RecordsOf(k) : k \in PairKeys} \cup {Null}] :
                \A k \in PairKeys : a[k] = Null \/ a[k] \in RecordsOf(k)}

EmptyArchive == [k \in PairKeys |-> Null]

RECURSIVE SumOver(_, _, _)
SumOver(cr, cats, field) ==
    IF cats = <<>> THEN 0 ELSE cr[Head(cats)][field] + SumOver(cr, Tail(cats), field)

\* len(result.comparisons): main.py appends one comparison for each outcome
\* it counts in category_results.
NumComparisons(result) ==
    SumOver(result.category_results, PromptCategories, 1)
        + SumOver(result.category_results, PromptCategories, 2)
        + SumOver(result.category_results, PromptCategories, 3)

\* ComparisonResult.overall_wins_a / overall_wins_b / overall_ties / overall_total
OverallWinsA(result) == SumOver(result.category_results, PromptCategories, 1)

OverallWinsB(result) == SumOver(result.category_results, PromptCategories, 2)

OverallTies(result) == SumOver(result.category_results, PromptCategories, 3)

OverallTotal(result) == OverallWinsA(result) + OverallWinsB(result) + OverallTies(result)

\* CategoryResult.total
CategoryTotal(result, category) ==
    result.category_results[category][1] + result.category_results[category][2]
        + result.category_results[category][3]

\* A comparison file whose text load_comparison_result cannot turn into a
\* ComparisonResult.
UnreadableFile == [unreadable |-> TRUE]

\* The archives in which a pair's file may also be unreadable.
ArchivesWithUnreadable ==
    {a \in [PairKeys -> UNION {RecordsOf(k) : k \in PairKeys} \cup {Null, UnreadableFile}] :
        \A k \in PairKeys : a[k] \in {Null, UnreadableFile} \/ a[k] \in RecordsOf(k)}

\* load_comparison_result(model_a, model_b, promptset): the record in the
\* pair's file, Null when there is no file or the file cannot be read.
LoadComparisonResult(arch, model_a, model_b) ==
    LET file == arch[PairKey(model_a, model_b)]
    IN  IF file = UnreadableFile THEN Null ELSE file

\* find_all_comparison_files(promptset), as the <<model_a, model_b>> the
\* callers read back from each file name.
ComparisonFiles(arch) == {k \in PairKeys : arch[k] # Null}

---------------------------------------------------------------------------
(* Direct comparison ranking: rank_llms/direct_comparison.py               *)

RECURSIVE Orderings(_)
Orderings(S) ==
    IF S = {} THEN {<< >>}
    ELSE UNION {{<<m>> \o rest : rest \in Orderings(S \ {m})} : m \in S}

\* The model lists handed to compute_rankings: two or more distinct models
\* in any order.
DirectModelLists ==
    UNION {Orderings(S) : S \in {T \in SUBSET Models : Cardinality(T) >= 2}}

SeqToSet(models) == {models[i] : i \in 1..Len(models)}

\* "for model_a in models: for model_b in models: if model_a != model_b":
\* the ordered pairs in the order the loops visit them, from position (i, j).
RECURSIVE OrderedPairs(_, _, _)
OrderedPairs(models, i, j) ==
    IF i > Len(models) THEN << >>
    ELSE IF j > Len(models) THEN OrderedPairs(models, i + 1, 1)
    ELSE IF models[i] = models[j] THEN OrderedPairs(models, i, j + 1)
    ELSE <<<<models[i], models[j]>>>> \o OrderedPairs(models, i, j + 1)

\* pd.DataFrame(0, index=models, columns=models)
ZeroFrame(models) == [a \in SeqToSet(models) |-> [b \in SeqToSet(models) |-> 0]]

\* compute_rankings, the body of the loading loop for one (model_a, model_b).
LoadPair(self, arch, model_a, model_b) ==
    LET result == LoadComparisonResult(arch, model_a, model_b)
    IN  IF result # Null
        THEN LET total_comparisons ==
                     OverallWinsA(result) + OverallWinsB(result) + OverallTies(result)
             IN  [self EXCEPT !.win_matrix[model_a][model_b] = OverallWinsA(result),
                              !.win_matrix[model_b][model_a] = OverallWinsB(result),
                              !.match_counts[model_a][model_b] = total_comparisons,
                              !.match_counts[model_b][model_a] = total_comparisons]
        ELSE [self EXCEPT !.missing_comparisons = Append(@, <<model_a, model_b>>)]

\* compute_rankings, the loading loop over the remaining ordered pairs.
RECURSIVE LoadPairs(_, _, _)
LoadPairs(self, arch, pairs) ==
    IF pairs = << >> THEN self
    ELSE LoadPairs(LoadPair(self, arch, Head(pairs)[1], Head(pairs)[2]), arch, Tail(pairs))

\* compute_rankings, one entry of the probability matrix.
WinProbability(self, model_a, model_b) ==
    IF model_a = model_b THEN Frac(1, 2)
    ELSE LET total_matches == self.match_counts[model_a][model_b]
         IN  IF total_matches > 0
             THEN LET wins_a == self.win_matrix[model_a][model_b]
                      ties == total_matches - wins_a - self.win_matrix[model_b][model_a]
                  IN  Frac(2 * wins_a + ties, 2 * total_matches)
             ELSE Null

\* DirectComparisonRanking.compute_rankings(models); called and returned
\* record that a call has returned and the value it returned.
ComputeRankings(self, arch, models) ==
    LET loaded == LoadPairs([self EXCEPT !.models = models,
                                         !.win_matrix = ZeroFrame(models),
                                         !.match_counts = ZeroFrame(models),
                                         !.missing_comparisons = << >>],
                            arch, OrderedPairs(models, 1, 1))
    IN  IF loaded.missing_comparisons # << >>
        THEN [loaded EXCEPT !.called = TRUE, !.returned = FALSE]
        ELSE [loaded EXCEPT !.called = TRUE, !.returned = TRUE,
                            !.probability_matrix =
                                [a \in SeqToSet(models) |->
                                    [b \in SeqToSet(models) |-> WinProbability(loaded, a, b)]]]

\* DirectComparisonRanking.get_rankings: the exception it raises (None when
\* it returns) and the ranking it returns.  A model the probability matrix
\* does not index makes .loc raise KeyError, and a None entry makes sum
\* raise TypeError; sorted(..., reverse=True) is stable.
GetRankings(self) ==
    LET listed   == SeqToSet(self.models)
        Index(m) == CHOOSE k \in 1..Len(self.models) : self.models[k] = m
        Probs(m) == LET opponents == SelectSeq(self.models, LAMBDA o : o # m)
                    IN  [i \in 1..Len(opponents) |-> self.probability_matrix[m][opponents[i]]]
        Score(m) == IF Probs(m) = << >> THEN Zero
                    ELSE RDiv(RSumSeq(Probs(m)), Frac(Len(Probs(m)), 1))
        Before(a, b) == \/ RLess(Score(b), Score(a))
                        \/ (Score(a) = Score(b) /\ Index(a) < Index(b))
        order    == CHOOSE o \in Orderings(listed) :
                        \A i \in 1..Len(o), j \in 1..Len(o) : i < j => Before(o[i], o[j])
    IN  IF self.probability_matrix = Null
        THEN [raised |-> "ValueError", ranking |-> << >>]
        ELSE IF Len(self.models) > 1 /\ \E m \in listed : m \notin DOMAIN self.probability_matrix
        THEN [raised |-> "KeyError", ranking |-> << >>]
        ELSE IF \E a \in listed, b \in listed : a # b /\ self.probability_matrix[a][b] = Null
        THEN [raised |-> "TypeError", ranking |-> << >>]
        ELSE [raised |-> None, ranking |-> [i \in 1..Len(order) |-> <<order[i], Score(order[i])>>]]

---------------------------------------------------------------------------
(* ELO ratings of the archive: rank_llms/leaderboard.py generate_elo_ratings
   and rank_llms/compare.py update_elo_ratings                             *)

\* The largest number of matches a ratings file holds when a refresh starts.
MaxRefreshMatches == 4

\* update_elo_ratings, the loop over result.category_results.items(): a
\* category with total > 0 is registered between the category-specific
\* names f"{model}__{category}".
RECURSIVE RegisterCategories(_, _, _)
RegisterCategories(sys, result, categories) ==
    IF categories = << >> THEN sys
    ELSE LET category        == Head(categories)
             category_result == result.category_results[category]
             total           == category_result[1] + category_result[2] + category_result[3]
             cat_model_a     == result.model_a \o "__" \o category
             cat_model_b     == result.model_b \o "__" \o category
         IN  RegisterCategories(
                 IF total > 0
                 THEN RegisterMatchResult(sys, cat_model_a, cat_model_b,
                                          category_result[1], category_result[2],
                                          category_result[3], category)
                 ELSE sys,
                 result, Tail(categories))

\* update_elo_ratings, the loop over results: the overall result of each
\* record, then its categories.
RECURSIVE RegisterResults(_, _)
RegisterResults(sys, results) ==
    IF results = << >> THEN sys
    ELSE LET result == Head(results)
         IN  RegisterResults(
                 RegisterCategories(
                     RegisterMatchResult(sys, result.model_a, result.model_b,
                                         OverallWinsA(result), OverallWinsB(result),
                                         OverallTies(result), None),
                     result, PromptCategories),
                 Tail(results))

\* update_elo_ratings(results, elo_file): the system is loaded from elo_file
\* (load_ratings is called without a promptset), the results are registered
\* and the system is saved.  The returned system and the file it leaves.
UpdateEloRatings(results, elo_file) ==
    LET elo_system == RegisterResults(LoadRatings(elo_file, DefaultPromptset), results)
    IN  [system |-> elo_system, file |-> SaveRatings(elo_system)]

\* generate_elo_ratings, the loop over the comparison files in glob order:
\* the records that load.
RECURSIVE LoadResults(_, _)
LoadResults(arch, files) ==
    IF files = << >> THEN << >>
    ELSE LET result == LoadComparisonResult(arch, Head(files)[1], Head(files)[2])
         IN  (IF result # Null THEN <<result>> ELSE << >>) \o LoadResults(arch, Tail(files))

\* generate_elo_ratings(force_refresh, promptset) with elo_file the ratings
\* file of the promptset: the returned system and the file it leaves.
GenerateEloRatings(elo_file, arch, files, force_refresh, promptset) ==
    IF ~force_refresh /\ elo_file.exists
    THEN [system |-> LoadRatings(elo_file, promptset), file |-> elo_file]
    ELSE UpdateEloRatings(LoadResults(arch, files), elo_file)

---------------------------------------------------------------------------
(* Win matrix of the archive: rank_llms/bradley_terry.py build_win_matrix  *)

\* build_win_matrix, the body of the loop for the file named
\* model_a__vs__model_b: files of models outside the subset are skipped.
PutWins(win_matrix, arch, models, model_a, model_b) ==
    IF model_a \notin SeqToSet(models) \/ model_b \notin SeqToSet(models) THEN win_matrix
    ELSE LET result == LoadComparisonResult(arch, model_a, model_b)
         IN  IF result = Null THEN win_matrix
             ELSE [win_matrix EXCEPT ![model_a][model_b] = OverallWinsA(result),
                                     ![model_b][model_a] = OverallWinsB(result)]

\* build_win_matrix, the loop over the remaining files.
RECURSIVE PutAllWins(_, _, _, _)
PutAllWins(win_matrix, arch, models, files) ==
    IF files = << >> THEN win_matrix
    ELSE PutAllWins(PutWins(win_matrix, arch, models, Head(files)[1], Head(files)[2]),
                    arch, models, Tail(files))

\* build_win_matrix(models, promptset), the files in the order glob lists them.
BuildWinMatrix(arch, files, models) == PutAllWins(ZeroFrame(models), arch, models, files)

---------------------------------------------------------------------------
(* Focus ranking: rank_llms/focus_rank.py                                  *)

MaxDepth == 3

\* float('inf')
Infinity == <<1, 0>>

\* A dict keyed by model names whose order of iteration does not matter:
\* a function on the set of its keys; {} is the empty function.
DictPut(d, key, value) ==
    [k \in (DOMAIN d) \cup {key} |-> IF k = key THEN value ELSE d[k]]

\* A dict that is iterated: the sequence of its <<key, value>> items in
\* insertion order; assigning to a present key keeps the key's position.
ItemKeys(items) == {items[i][1] : i \in 1..Len(items)}

ItemGet(items, key) == items[CHOOSE i \in 1..Len(items) : items[i][1] = key][2]

ItemPut(items, key, value) ==
    IF key \in ItemKeys(items)
    THEN [i \in 1..Len(items) |-> IF items[i][1] = key THEN <<key, value>> ELSE items[i]]
    ELSE Append(items, <<key, value>>)

\* FocusRanking.__init__(focus_model); max_depth, called and returned record
\* the argument and the result of the last compute_rankings.
FocusNew(focus_model) ==
    [focus_model |-> focus_model, comparisons |-> << >>, models |-> {},
     direct_ratios |-> << >>, transitive_ratios |-> << >>,
     graph |-> [m \in Models |-> << >>],
     max_depth |-> 0, called |-> FALSE, returned |-> << >>]

\* _load_all_comparisons, the body of the loop for the file named
\* model_a__vs__model_b.
LoadFile(self, arch, model_a, model_b) ==
    LET result == LoadComparisonResult(arch, model_a, model_b)
        withModels == [self EXCEPT !.models = @ \cup {model_a, model_b}]
    IN  IF result = Null THEN withModels
        ELSE LET stored == [withModels EXCEPT
                               !.comparisons = DictPut(@, PairKey(model_a, model_b), result)]
                 total == OverallTotal(result)
                 \* twice wins_a and twice wins_b of the code
                 wins_a == 2 * OverallWinsA(result) + OverallTies(result)
                 wins_b == 2 * OverallWinsB(result) + OverallTies(result)
                 edge_ba == IF wins_a > 0
                            THEN [stored EXCEPT !.graph[model_b] =
                                                   ItemPut(@, model_a, Frac(wins_b, wins_a))]
                            ELSE stored
                 edge_ab == IF wins_b > 0
                            THEN [edge_ba EXCEPT !.graph[model_a] =
                                                    ItemPut(@, model_b, Frac(wins_a, wins_b))]
                            ELSE edge_ba
             IN  IF total > 0 THEN edge_ab ELSE stored

\* _load_all_comparisons: the files in the order glob lists them.
RECURSIVE LoadAllComparisons(_, _, _)
LoadAllComparisons(self, arch, files) ==
    IF files = << >> THEN self
    ELSE LoadAllComparisons(LoadFile(self, arch, Head(files)[1], Head(files)[2]),
                            arch, Tail(files))

\* A plausible slip in _compute_direct_ratios: the record's model_a is taken
\* to be the focus model without looking at result.model_a.
DirectRatioFocusFirst(result, focus_model) ==
    LET focus_wins == 2 * OverallWinsA(result) + OverallTies(result)
        other_wins == 2 * OverallWinsB(result) + OverallTies(result)
    IN  IF focus_wins > 0 THEN Frac(other_wins, focus_wins) ELSE Infinity

\* _compute_direct_ratios, the ratio of one stored result.
DirectRatio(result, focus_model) ==
    LET focus_wins == IF result.model_a = focus_model
                      THEN 2 * OverallWinsA(result) + OverallTies(result)
                      ELSE 2 * OverallWinsB(result) + OverallTies(result)
        other_wins == IF result.model_a = focus_model
                      THEN 2 * OverallWinsB(result) + OverallTies(result)
                      ELSE 2 * OverallWinsA(result) + OverallTies(result)
    IN  IF focus_wins > 0 THEN Frac(other_wins, focus_wins) ELSE Infinity

\* _compute_direct_ratios
ComputeDirectRatios(self) ==
    LET compared == {model \in self.models \ {self.focus_model} :
                        PairKey(self.focus_model, model) \in DOMAIN self.comparisons}
    IN  [self EXCEPT !.direct_ratios =
            [model \in (DOMAIN @) \cup compared |->
                IF model \in compared
                THEN DirectRatio(self.comparisons[PairKey(self.focus_model, model)],
                                 self.focus_model)
                ELSE @[model]]]

\* _find_paths, "for neighbor in self.graph[current]"; st holds the locals
\* paths, queue and visited.
RECURSIVE VisitNeighbors(_, _, _)
VisitNeighbors(st, current, neighbors) ==
    IF neighbors = << >> THEN st
    ELSE LET neighbor == Head(neighbors)[1]
         IN  VisitNeighbors(
                 IF neighbor \notin st.visited
                 THEN [visited |-> st.visited \cup {neighbor},
                       queue |-> Append(st.queue, neighbor),
                       paths |-> DictPut(st.paths, neighbor,
                                         Append(st.paths[current], neighbor))]
                 ELSE st,
                 current, Tail(neighbors))

\* _find_paths, "for _ in range(level_size)"
RECURSIVE VisitLevel(_, _, _)
VisitLevel(st, graph, level_size) ==
    IF level_size = 0 THEN st
    ELSE LET current == Head(st.queue)
         IN  VisitLevel(VisitNeighbors([st EXCEPT !.queue = Tail(@)], current, graph[current]),
                        graph, level_size - 1)

\* A plausible slip in _find_paths: the loop runs until the queue is empty,
\* whatever max_depth is.
RECURSIVE VisitLevelsUnbounded(_, _, _, _)
VisitLevelsUnbounded(st, graph, depth, max_depth) ==
    IF st.queue = << >> THEN st.paths
    ELSE VisitLevelsUnbounded(VisitLevel(st, graph, Len(st.queue)), graph, depth + 1, max_depth)

\* _find_paths, "while queue and depth < max_depth"
RECURSIVE VisitLevels(_, _, _, _)
VisitLevels(st, graph, depth, max_depth) ==
    IF st.queue = << >> \/ depth >= max_depth THEN st.paths
    ELSE VisitLevels(VisitLevel(st, graph, Len(st.queue)), graph, depth + 1, max_depth)

\* _find_paths(start, max_depth)
FindPaths(self, start, max_depth) ==
    VisitLevels([paths |-> [m \in {start} |-> <<start>>], queue |-> <<start>>,
                 visited |-> {start}],
                self.graph, 0, max_depth)

\* _compute_transitive_ratios, the product of the edge weights along a path.
RECURSIVE PathRatio(_, _, _)
PathRatio(graph, path, i) ==
    IF i >= Len(path) THEN One
    ELSE RMul(ItemGet(graph[path[i]], path[i + 1]), PathRatio(graph, path, i + 1))

\* _compute_transitive_ratios(max_depth)
ComputeTransitiveRatios(self, max_depth) ==
    LET paths == FindPaths(self, self.focus_model, max_depth)
        reached == {model \in DOMAIN paths :
                       model \notin DOMAIN self.direct_ratios /\ model # self.focus_model}
    IN  [self EXCEPT !.transitive_ratios =
            [model \in (DOMAIN @) \cup reached |->
                IF model \in reached THEN PathRatio(self.graph, paths[model], 1)
                ELSE @[model]]]

\* compute_rankings, from "all_ratios = {}" on.
CombineRatios(self) ==
    LET added == {model \in DOMAIN self.transitive_ratios :
                     model \notin DOMAIN self.direct_ratios}
    IN  [model \in (DOMAIN self.direct_ratios) \cup added \cup {self.focus_model} |->
            IF model = self.focus_model THEN One
            ELSE IF model \in DOMAIN self.direct_ratios THEN self.direct_ratios[model]
            ELSE self.transitive_ratios[model]]

\* compute_rankings with the transitive ratios computed first and taking
\* precedence over the direct ones when the two are combined.
FocusComputeRankingsTransitiveFirst(self, arch, files, max_depth) ==
    LET loaded == [LoadAllComparisons(self, arch, files) EXCEPT
                       !.max_depth = max_depth, !.called = TRUE]
    IN  IF self.focus_model \notin loaded.models
        THEN [loaded EXCEPT !.returned = << >>]
        ELSE LET withTransitive == IF max_depth > 1
                                   THEN ComputeTransitiveRatios(loaded, max_depth)
                                   ELSE loaded
                 both == ComputeDirectRatios(withTransitive)
             IN  [both EXCEPT !.returned =
                     [model \in (DOMAIN both.direct_ratios)
                                   \cup (DOMAIN both.transitive_ratios)
                                   \cup {both.focus_model} |->
                         IF model = both.focus_model THEN One
                         ELSE IF model \in DOMAIN both.transitive_ratios
                              THEN both.transitive_ratios[model]
                         ELSE both.direct_ratios[model]]]

\* FocusRanking.compute_rankings(max_depth), glob listing the files in the
\* order files.
FocusComputeRankings(self, arch, files, max_depth) ==
    LET loaded == [LoadAllComparisons(self, arch, files) EXCEPT
                       !.max_depth = max_depth, !.called = TRUE]
    IN  IF self.focus_model \notin loaded.models
        THEN [loaded EXCEPT !.returned = << >>]
        ELSE LET withDirect == ComputeDirectRatios(loaded)
                 withTransitive == IF max_depth > 1
                                   THEN ComputeTransitiveRatios(withDirect, max_depth)
                                   ELSE withDirect
             IN  [withTransitive EXCEPT !.returned = CombineRatios(withTransitive)]

---------------------------------------------------------------------------
(* Confidence analyzer: rank_llms/analyzer.py                              *)

MaxSuggestions == 4

\* The arguments of generate_suggestions in the checks.
MinComparisonsValues == {1, 5, 11}

MinPerCategoryValues == {2, 5}

MaxRatingDiffValues == {20, 50}

Min2(a, b) == IF a <= b THEN a ELSE b

\* A plausible slip: the slice items[:n] is left out.
TakeEverything(items, n) == items

\* items[:n]
Take(items, n) == SubSeq(items, 1, Min2(n, Len(items)))

\* list.sort(key=...), a stable sort, on <<key, item>> pairs.
RECURSIVE InsertKeyed(_, _)
InsertKeyed(sorted, x) ==
    IF sorted = << >> THEN <<x>>
    ELSE IF Head(sorted)[1] <= x[1] THEN <<Head(sorted)>> \o InsertKeyed(Tail(sorted), x)
    ELSE <<x>> \o sorted

RECURSIVE SortKeyed(_, _)
SortKeyed(acc, rest) ==
    IF rest = << >> THEN acc ELSE SortKeyed(InsertKeyed(acc, Head(rest)), Tail(rest))

StableSort(keyed) ==
    LET sorted == SortKeyed(<< >>, keyed) IN [i \in 1..Len(sorted) |-> sorted[i][2]]

\* sorted(self.models)
SortedModels(models) == SelectSeq(ModelsSorted, LAMBDA m : m \in models)

\* list(itertools.combinations(seq, 2)), from position (i, j).
RECURSIVE Combinations(_, _, _)
Combinations(seq, i, j) ==
    IF i >= Len(seq) THEN << >>
    ELSE IF j > Len(seq) THEN Combinations(seq, i + 1, i + 2)
    ELSE <<<<seq[i], seq[j]>>>> \o Combinations(seq, i, j + 1)

\* _load_comparison_data, "for category, cat_result in
\* result.category_results.items()".
RECURSIVE LoadCategories(_, _, _, _, _)
LoadCategories(self, result, model_a, model_b, categories) ==
    IF categories = << >> THEN self
    ELSE LET category == Head(categories)
             total == CategoryTotal(result, category)
             model_pair == PairKey(model_a, model_b)
             counted ==
                 [self EXCEPT
                     !.category_comparisons[category] =
                         DictPut(@, model_pair,
                                 (IF model_pair \in DOMAIN @ THEN @[model_pair] ELSE 0) + total),
                     !.model_category_counts[model_a][category] = @ + total,
                     !.model_category_counts[model_b][category] = @ + total]
         IN  LoadCategories(IF total > 0 THEN counted ELSE self,
                            result, model_a, model_b, Tail(categories))

\* _load_comparison_data, the body of the loop for the file named
\* model_a__vs__model_b.
LoadComparisonFile(self, arch, model_a, model_b) ==
    LET result == LoadComparisonResult(arch, model_a, model_b)
        withModels == [self EXCEPT !.models = @ \cup {model_a, model_b}]
        model_pair == PairKey(model_a, model_b)
    IN  IF result = Null THEN withModels
        ELSE LoadCategories(
                 [withModels EXCEPT !.comparisons =
                     ItemPut(@, model_pair,
                             (IF model_pair \in ItemKeys(@) THEN ItemGet(@, model_pair) ELSE 0)
                                 + NumComparisons(result))],
                 result, model_a, model_b, PromptCategories)

\* _load_comparison_data
RECURSIVE LoadComparisonData(_, _, _)
LoadComparisonData(self, arch, files) ==
    IF files = << >> THEN self
    ELSE LoadComparisonData(LoadComparisonFile(self, arch, Head(files)[1], Head(files)[2]),
                            arch, Tail(files))

\* ConfidenceAnalyzer.__init__(promptset), glob listing the files in the
\* order files and ratings being the stored ratings (Null without a ratings
\* file); called, max_suggestions and suggestions record the last
\* generate_suggestions.
AnalyzerNew(promptset, arch, files, ratings) ==
    LoadComparisonData(
        [promptset |-> promptset, comparison_files |-> files, models |-> {},
         comparisons |-> << >>,
         category_comparisons |-> [c \in CategorySet |-> << >>],
         model_category_counts |-> [m \in Models |-> [c \in CategorySet |-> 0]],
         elo_ratings |-> ratings,
         called |-> FALSE, min_comparisons |-> 0, min_per_category |-> 0,
         max_rating_diff |-> 0, max_suggestions |-> 0, suggestions |-> << >>],
        arch, files)

\* get_missing_comparisons
GetMissingComparisons(self) ==
    SelectSeq(Combinations(SortedModels(self.models), 1, 2),
              LAMBDA pair : pair \notin ItemKeys(self.comparisons))

\* get_low_confidence_pairs(min_comparisons): <<model_a, model_b, count>>
GetLowConfidencePairs(self, min_comparisons) ==
    LET low_confidence == SelectSeq(self.comparisons, LAMBDA item : item[2] < min_comparisons)
    IN  StableSort([i \in 1..Len(low_confidence) |->
                       <<low_confidence[i][2],
                         <<low_confidence[i][1][1], low_confidence[i][1][2],
                           low_confidence[i][2]>> >>])

\* get_close_rating_pairs(max_diff): <<model_a, model_b, diff>>, diff in
\* units of 1/Scale.
GetCloseRatingPairs(self, max_diff) ==
    IF self.elo_ratings = Null THEN << >>
    ELSE LET pairs == Combinations(SortedModels(self.models), 1, 2)
             Diff(pair) == Abs(GetRating(self.elo_ratings, pair[1])
                                 - GetRating(self.elo_ratings, pair[2]))
             close_pairs == SelectSeq(pairs, LAMBDA pair : Diff(pair) <= max_diff * Scale)
         IN  StableSort([i \in 1..Len(close_pairs) |->
                            <<Diff(close_pairs[i]),
                              <<close_pairs[i][1], close_pairs[i][2], Diff(close_pairs[i])>> >>])

\* get_category_gaps(min_per_category), the list of one category.
GetCategoryGaps(self, min_per_category, category) ==
    LET Count(pair) == IF pair \in DOMAIN self.category_comparisons[category]
                       THEN self.category_comparisons[category][pair] ELSE 0
        gaps == SelectSeq(self.comparisons, LAMBDA item : Count(item[1]) < min_per_category)
    IN  StableSort([i \in 1..Len(gaps) |->
                       <<Count(gaps[i][1]),
                         <<gaps[i][1][1], gaps[i][1][2], Count(gaps[i][1])>> >>])

\* One suggestion dictionary; category is None where the code sets none.
Suggestion(model_a, model_b, priority, category) ==
    [model_a |-> model_a, model_b |-> model_b, priority |-> priority, category |-> category]

\* generate_suggestions: appends the suggestion although the pair may
\* already be in the list.
AddSuggestionUnchecked(suggestions, suggestion) == Append(suggestions, suggestion)

\* generate_suggestions, criteria 2 to 4: "if (model_a, model_b) not in
\* [...] and (model_b, model_a) not in [...]: suggestions.append(...)".
AddSuggestion(suggestions, suggestion) ==
    LET listed == {<<suggestions[i].model_a, suggestions[i].model_b>> :
                      i \in 1..Len(suggestions)}
    IN  IF /\ <<suggestion.model_a, suggestion.model_b>> \notin listed
           /\ <<suggestion.model_b, suggestion.model_a>> \notin listed
        THEN Append(suggestions, suggestion)
        ELSE suggestions

\* generate_suggestions, one of the loops "for model_a, model_b, count in
\* pairs[:n]" of criteria 2 to 4.
RECURSIVE AddPairs(_, _, _, _)
AddPairs(suggestions, pairs, priority, category) ==
    IF pairs = << >> THEN suggestions
    ELSE AddPairs(AddSuggestion(suggestions,
                                Suggestion(Head(pairs)[1], Head(pairs)[2], priority, category)),
                  Tail(pairs), priority, category)

\* generate_suggestions, "for category, pairs in category_gaps.items()".
RECURSIVE AddCategoryGaps(_, _, _, _, _)
AddCategoryGaps(self, suggestions, categories, min_per_category, max_suggestions) ==
    IF categories = << >> THEN suggestions
    ELSE AddCategoryGaps(
             self,
             AddPairs(suggestions,
                      Take(GetCategoryGaps(self, min_per_category, Head(categories)),
                           max_suggestions \div Len(PromptCategories)),
                      4, Head(categories)),
             Tail(categories), min_per_category, max_suggestions)

\* A plausible slip in generate_suggestions: the close-rating pairs are
\* merged before the low-confidence pairs.
GenerateSuggestionsCloseFirst(self, min_comparisons, min_per_category, max_rating_diff, max_suggestions) ==
    LET missing == Take(GetMissingComparisons(self), max_suggestions)
        first == [i \in 1..Len(missing) |-> Suggestion(missing[i][1], missing[i][2], 1, None)]
        second == IF self.elo_ratings # Null
                  THEN AddPairs(first,
                                Take(GetCloseRatingPairs(self, max_rating_diff), max_suggestions),
                                3, None)
                  ELSE first
        third == AddPairs(second,
                          Take(GetLowConfidencePairs(self, min_comparisons), max_suggestions),
                          2, None)
        fourth == AddCategoryGaps(self, third, PromptCategories, min_per_category,
                                  max_suggestions)
        sorted == StableSort([i \in 1..Len(fourth) |-> <<fourth[i].priority, fourth[i]>>])
    IN  Take(sorted, max_suggestions)

\* ConfidenceAnalyzer.generate_suggestions
GenerateSuggestions(self, min_comparisons, min_per_category, max_rating_diff, max_suggestions) ==
    LET missing == Take(GetMissingComparisons(self), max_suggestions)
        first == [i \in 1..Len(missing) |-> Suggestion(missing[i][1], missing[i][2], 1, None)]
        second == AddPairs(first,
                           Take(GetLowConfidencePairs(self, min_comparisons), max_suggestions),
                           2, None)
        third == IF self.elo_ratings # Null
                 THEN AddPairs(second,
                               Take(GetCloseRatingPairs(self, max_rating_diff), max_suggestions),
                               3, None)
                 ELSE second
        fourth == AddCategoryGaps(self, third, PromptCategories, min_per_category,
                                  max_suggestions)
        sorted == StableSort([i \in 1..Len(fourth) |-> <<fourth[i].priority, fourth[i]>>])
    IN  Take(sorted, max_suggestions)

---------------------------------------------------------------------------
(* Constructed (idle) states of the components.                            *)

\* BradleyTerryModel.__init__; pc, iteration and work are the position and
\* the local array strengths of a running fit.
BTNew(max_iterations) ==
    [pc |-> "new", max_iterations |-> max_iterations, iteration |-> 0, models |-> << >>,
     win_matrix |-> None, work |-> << >>, strengths |-> << >>]

\* DirectComparisonRanking.__init__
DirectNew == [models |-> << >>, win_matrix |-> Null, match_counts |-> Null,
              probability_matrix |-> Null, missing_comparisons |-> << >>,
              called |-> FALSE, returned |-> FALSE]

\* Before FocusRanking(focus_model) is constructed there is no instance.
FocusNone == FocusNew(None)

\* Before ConfidenceAnalyzer(promptset) is constructed there is no instance.
AnalyzerNone == AnalyzerNew(None, EmptyArchive, << >>, Null)

---------------------------------------------------------------------------
(* Specification of the ELO rating store.                                  *)

InitElo ==
    /\ archive = EmptyArchive
    /\ elo = EloNew(DEFAULT_K, DEFAULT_STARTING_ELO, "basic1")
    /\ bt = BTNew(DefaultMaxIterations)
    /\ direct = DirectNew
    /\ focus = FocusNone
    /\ analyzer = AnalyzerNone
    /\ ratings_file = AbsentFile
    /\ call = NoCall

\* One call register_match_result(model_a, model_b, wins_a, wins_b, draws,
\* category) on a system that has fewer than limit matches in its history.
Register(limit, batches, categories) ==
    \E model_a \in Models, model_b \in Models, batch \in batches, category \in categories :
        /\ Len(elo.match_history) < limit
        /\ elo' = RegisterMatchResult(elo, model_a, model_b, batch[1], batch[2], batch[3],
                                      category)
        /\ call' = [op |-> "register_match_result",
                    wins_a |-> batch[1], wins_b |-> batch[2], draws |-> batch[3]]
        /\ UNCHANGED <<archive, bt, direct, focus, analyzer, ratings_file>>

EloRegister == Register(MaxMatches, Batches, {None})

\* One call expected_score(model_a, model_b).
EloExpectedScore ==
    \E model_a \in Models, model_b \in Models :
        /\ Len(elo.match_history) < MaxMatches
        /\ call' = [op |-> "expected_score", model_a |-> model_a, model_b |-> model_b,
                    result |-> ExpectedScore(elo, model_a, model_b)]
        /\ UNCHANGED <<archive, elo, bt, direct, focus, analyzer, ratings_file>>

NextElo == EloRegister \/ EloExpectedScore

SpecElo == InitElo /\ [][NextElo]_vars

---------------------------------------------------------------------------
(* Specification of the ELO store across invocations: load_ratings,        *)
(* registrations, save_ratings (compare.update_elo_ratings).               *)

\* What the ratings file can hold before the program first writes it: no
\* file, text that is not JSON, and the empty JSON object.
InitialFiles == {AbsentFile, CorruptFile, JsonFile(<< >>)}

InitEloStore ==
    /\ archive = EmptyArchive
    /\ elo = EloNew(DEFAULT_K, DEFAULT_STARTING_ELO, DefaultPromptset)
    /\ bt = BTNew(DefaultMaxIterations)
    /\ direct = DirectNew
    /\ focus = FocusNone
    /\ analyzer = AnalyzerNone
    /\ ratings_file \in InitialFiles
    /\ call = NoCall

\* elo_system = EloRatingSystem.load_ratings(elo_file, promptset)
EloLoad ==
    \E promptset \in Promptsets :
        /\ elo' = LoadRatings(ratings_file, promptset)
        /\ call' = [op |-> "load_ratings", promptset |-> promptset]
        /\ UNCHANGED <<archive, bt, direct, focus, analyzer, ratings_file>>

\* elo_system.register_match_result(...) as update_elo_ratings calls it, for
\* the overall result (no category) or the result of one category, while the
\* whole history of the system holds fewer than MaxStoredMatches records.
EloSessionRegister ==
    Register(MaxStoredMatches, StoredBatches, {None, PromptCategories[1]})

\* elo_system.save_ratings(elo_file)
EloSave ==
    /\ ratings_file' = SaveRatings(elo)
    /\ call' = [op |-> "save_ratings"]
    /\ UNCHANGED <<archive, elo, bt, direct, focus, analyzer>>

NextEloStore == EloLoad \/ EloSessionRegister \/ EloSave

SpecEloStore == InitEloStore /\ [][NextEloStore]_vars

---------------------------------------------------------------------------
(* Specification of the Bradley-Terry estimator.                           *)

InitBT ==
    /\ archive = EmptyArchive
    /\ elo = EloNew(DEFAULT_K, DEFAULT_STARTING_ELO, "basic1")
    /\ bt \in {BTNew(m) : m \in 0..MaxIter}
    /\ direct = DirectNew
    /\ focus = FocusNone
    /\ analyzer = AnalyzerNone
    /\ ratings_file = AbsentFile
    /\ call = NoCall

\* fit(win_matrix) is called and reaches its loop.
BTFit ==
    /\ bt.pc = "new"
    /\ \E models \in BTModelLists :
         \E win_matrix \in WinMatrices(Len(models)) :
            bt' = FitStart(bt, win_matrix, models)
    /\ UNCHANGED <<archive, elo, direct, focus, analyzer, ratings_file, call>>

\* One pass of the loop of fit; on convergence the loop is left with the
\* strengths of the pass before, which fit stores and returns.
BTIterate ==
    /\ bt.pc = "fitting"
    /\ bt.iteration < bt.max_iterations
    /\ LET new_strengths == Sweep(bt.win_matrix, bt.work)
       IN  /\ AllRep(new_strengths)
           /\ IF Converged(new_strengths, bt.work)
              THEN bt' = FitStore([bt EXCEPT !.iteration = @ + 1], bt.work)
              ELSE bt' = [bt EXCEPT !.iteration = @ + 1, !.work = new_strengths]
    /\ UNCHANGED <<archive, elo, direct, focus, analyzer, ratings_file, call>>

\* The loop ran max_iterations times: fit stores and returns the strengths.
BTReturn ==
    /\ bt.pc = "fitting"
    /\ bt.iteration = bt.max_iterations
    /\ bt' = FitStore(bt, bt.work)
    /\ UNCHANGED <<archive, elo, direct, focus, analyzer, ratings_file, call>>

NextBT == BTFit \/ BTIterate \/ BTReturn

SpecBT == InitBT /\ [][NextBT]_vars

\* One call probability_matrix() on the estimator, outside fit.
BTProbabilityMatrix ==
    /\ bt.pc # "fitting"
    /\ call' = [op |-> "probability_matrix", result |-> ProbabilityMatrix(bt)]
    /\ UNCHANGED <<archive, elo, bt, direct, focus, analyzer, ratings_file>>

NextBTQuery == BTFit \/ BTIterate \/ BTReturn \/ BTProbabilityMatrix

\* The estimator fitted and then asked for its probability matrix.
SpecBTQuery == InitBT /\ [][NextBTQuery]_vars

---------------------------------------------------------------------------
(* Specification of build_win_matrix over the archive.                     *)

InitWinMatrix ==
    /\ archive \in Archives
    /\ elo = EloNew(DEFAULT_K, DEFAULT_STARTING_ELO, "basic1")
    /\ bt = BTNew(DefaultMaxIterations)
    /\ direct = DirectNew
    /\ focus = FocusNone
    /\ analyzer = AnalyzerNone
    /\ ratings_file = AbsentFile
    /\ call = NoCall

\* win_matrix = build_win_matrix(models, promptset)
BuildMatrix ==
    \E models \in DirectModelLists, files \in Orderings(ComparisonFiles(archive)) :
        /\ call' = [op |-> "build_win_matrix", models |-> models,
                    result |-> BuildWinMatrix(archive, files, models)]
        /\ UNCHANGED <<archive, elo, bt, direct, focus, analyzer, ratings_file>>

NextWinMatrix == BuildMatrix

SpecWinMatrix == InitWinMatrix /\ [][NextWinMatrix]_vars

---------------------------------------------------------------------------
(* Specification of the direct comparison ranking.                         *)

InitDirect ==
    /\ archive \in Archives
    /\ elo = EloNew(DEFAULT_K, DEFAULT_STARTING_ELO, "basic1")
    /\ bt = BTNew(DefaultMaxIterations)
    /\ direct = DirectNew
    /\ focus = FocusNone
    /\ analyzer = AnalyzerNone
    /\ ratings_file = AbsentFile
    /\ call = NoCall

\* One call compute_rankings(models) on the ranking object.
DirectCompute ==
    \E models \in DirectModelLists :
        /\ direct' = ComputeRankings(direct, archive, models)
        /\ call' = [op |-> "compute_rankings", models |-> models,
                    result |-> direct'.returned]
        /\ UNCHANGED <<archive, elo, bt, focus, analyzer, ratings_file>>

NextDirect == DirectCompute

SpecDirect == InitDirect /\ [][NextDirect]_vars

\* The largest number of comparison files the archive of a session that
\* queries the ranking holds at one time.
MaxQueryFiles == 1

\* The archives of the sessions that query the ranking: any records, in
\* at most MaxQueryFiles files.
QueryArchives == {a \in Archives : Cardinality(ComparisonFiles(a)) <= MaxQueryFiles}

InitDirectQuery ==
    /\ archive \in QueryArchives
    /\ elo = EloNew(DEFAULT_K, DEFAULT_STARTING_ELO, "basic1")
    /\ bt = BTNew(DefaultMaxIterations)
    /\ direct = DirectNew
    /\ focus = FocusNone
    /\ analyzer = AnalyzerNone
    /\ ratings_file = AbsentFile
    /\ call = NoCall

\* The archive the next call reads differs from the one the last call read:
\* save_comparison_result added files or wrote them again, files were
\* removed, or the next call names another promptset, whose archive holds
\* more, fewer or other records.
DirectScopeChange ==
    \E other \in QueryArchives :
        /\ other # archive
        /\ archive' = other
        /\ UNCHANGED <<elo, bt, direct, focus, analyzer, ratings_file, call>>

\* One call get_rankings() on the ranking object.
DirectGetRankings ==
    /\ direct.called
    /\ call' = [op |-> "get_rankings", result |-> GetRankings(direct)]
    /\ UNCHANGED <<archive, elo, bt, direct, focus, analyzer, ratings_file>>

NextDirectQuery == DirectCompute \/ DirectScopeChange \/ DirectGetRankings

\* The ranking object queried between calls over a changing scope.
SpecDirectQuery == InitDirectQuery /\ [][NextDirectQuery]_vars

---------------------------------------------------------------------------
(* Specification of the leaderboard's ELO ratings: archive and ratings_file
   are the test archive and the ratings file of one promptset, the one every
   call of a behaviour names.                                              *)

\* elo_system = generate_elo_ratings(force_refresh, promptset)
EloGenerate ==
    \E promptset \in Promptsets, force_refresh \in BOOLEAN,
       files \in Orderings(ComparisonFiles(archive)) :
        /\ IF call.op = None THEN TRUE ELSE call.promptset = promptset
        /\ Len(LoadRatings(ratings_file, promptset).match_history) < MaxRefreshMatches
        /\ LET generated == GenerateEloRatings(ratings_file, archive, files,
                                               force_refresh, promptset)
           IN  /\ elo' = generated.system
               /\ ratings_file' = generated.file
        /\ call' = [op |-> "generate_elo_ratings", promptset |-> promptset,
                    force_refresh |-> force_refresh, files |-> files]
        /\ UNCHANGED <<archive, bt, direct, focus, analyzer>>

NextEloGenerate == EloGenerate

SpecEloGenerate == InitWinMatrix /\ [][NextEloGenerate]_vars

---------------------------------------------------------------------------
(* Specification of the focus ranking.                                     *)

InitFocus ==
    /\ archive \in ArchivesWithUnreadable
    /\ elo = EloNew(DEFAULT_K, DEFAULT_STARTING_ELO, "basic1")
    /\ bt = BTNew(DefaultMaxIterations)
    /\ direct = DirectNew
    /\ focus = FocusNone
    /\ analyzer = AnalyzerNone
    /\ ratings_file = AbsentFile
    /\ call = NoCall

\* FocusRanking(focus_model) is constructed.
FocusConstruct ==
    \E focus_model \in Models :
        /\ focus' = FocusNew(focus_model)
        /\ UNCHANGED <<archive, elo, bt, direct, analyzer, ratings_file, call>>

\* One call compute_rankings(max_depth) on the instance.
FocusCompute ==
    /\ focus.focus_model # None
    /\ \E max_depth \in 1..MaxDepth, files \in Orderings(ComparisonFiles(archive)) :
          focus' = FocusComputeRankings(focus, archive, files, max_depth)
    /\ UNCHANGED <<archive, elo, bt, direct, analyzer, ratings_file, call>>

NextFocus == FocusConstruct \/ FocusCompute

SpecFocus == InitFocus /\ [][NextFocus]_vars

---------------------------------------------------------------------------
(* Specification of the confidence analyzer.                               *)

\* The archives whose records name the models in the order of the file
\* name; the analyzer reads the names from the file name only.
AnalyzerArchives ==
    {a \in Archives : \A k \in PairKeys : a[k] # Null => a[k].model_a = k[1]}

\* What leaderboard/<promptset>_elo_ratings.json holds: nothing, a store
\* without ratings, or the store after one match won by A against B.
StoredRatings ==
    {Null, EloNew(DEFAULT_K, DEFAULT_STARTING_ELO, "test"),
     RegisterMatchResult(EloNew(DEFAULT_K, DEFAULT_STARTING_ELO, "test"),
                         "A", "B", 1, 0, 0, None)}

InitAnalyzer ==
    /\ archive \in AnalyzerArchives
    /\ elo \in StoredRatings
    /\ bt = BTNew(DefaultMaxIterations)
    /\ direct = DirectNew
    /\ focus = FocusNone
    /\ analyzer = AnalyzerNone
    /\ ratings_file = AbsentFile
    /\ call = NoCall

\* ConfidenceAnalyzer(promptset) is constructed.
AnalyzerConstruct ==
    /\ analyzer.promptset = None
    /\ \E files \in Orderings(ComparisonFiles(archive)) :
          analyzer' = AnalyzerNew("test", archive, files, elo)
    /\ UNCHANGED <<archive, elo, bt, direct, focus, ratings_file, call>>

\* One call generate_suggestions(...) on the analyzer.
AnalyzerSuggest ==
    /\ analyzer.promptset # None
    /\ ~analyzer.called
    /\ \E min_comparisons \in MinComparisonsValues,
          min_per_category \in MinPerCategoryValues,
          max_rating_diff \in MaxRatingDiffValues,
          max_suggestions \in 0..MaxSuggestions :
          analyzer' = [analyzer EXCEPT
                          !.called = TRUE,
                          !.min_comparisons = min_comparisons,
                          !.min_per_category = min_per_category,
                          !.max_rating_diff = max_rating_diff,
                          !.max_suggestions = max_suggestions,
                          !.suggestions = GenerateSuggestions(analyzer, min_comparisons,
                                              min_per_category, max_rating_diff,
                                              max_suggestions)]
    /\ UNCHANGED <<archive, elo, bt, direct, focus, ratings_file, call>>

NextAnalyzer == AnalyzerConstruct \/ AnalyzerSuggest

SpecAnalyzer == InitAnalyzer /\ [][NextAnalyzer]_vars

\* One call get_low_confidence_pairs(min_comparisons) on the analyzer.
AnalyzerLowConfidence ==
    /\ analyzer.promptset # None
    /\ \E min_comparisons \in MinComparisonsValues :
          call' = [op |-> "get_low_confidence_pairs", min_comparisons |-> min_comparisons,
                   result |-> GetLowConfidencePairs(analyzer, min_comparisons)]
    /\ UNCHANGED <<archive, elo, bt, direct, focus, analyzer, ratings_file>>

NextAnalyzerQueries == AnalyzerConstruct \/ AnalyzerLowConfidence

\* The analyzer's queries on the loaded data.
SpecAnalyzerQueries == InitAnalyzer /\ [][NextAnalyzerQueries]_vars

---------------------------------------------------------------------------
(* Claims about the ELO rating store.                                      *)

\* The match record written by the most recent update.
LastMatch(sys) == sys.match_history[Len(sys.match_history)]

\* The step is a register_match_result call that updated the ratings.
EloUpdated == Len(elo'.match_history) = Len(elo.match_history) + 1

\* The change a step made to the stored rating of a model.
StoredChange(model) == GetRating(elo', model) - GetRating(elo, model)

\* C1 as stated: every register_match_result call with a non-empty batch
\* changes the stored rating of model_a by the negative of the change of
\* the stored rating of model_b, for any two arguments.
C1_ZeroSumAnyPair ==
    [][EloUpdated =>
         StoredChange(LastMatch(elo').model_a) = -StoredChange(LastMatch(elo').model_b)]_vars

\* C1 amended: the same, for calls whose two arguments are distinct models.
C1_ZeroSumDistinct ==
    [][(EloUpdated /\ LastMatch(elo').model_a # LastMatch(elo').model_b) =>
         StoredChange(LastMatch(elo').model_a) = -StoredChange(LastMatch(elo').model_b)]_vars

\* C1 witness: a second update, between two distinct models with unequal
\* ratings, has moved both stored ratings.
C1_Witness ==
    /\ Len(elo.match_history) = 2
    /\ LastMatch(elo).model_a # LastMatch(elo).model_b
    /\ LastMatch(elo).old_rating_a # LastMatch(elo).old_rating_b
    /\ LastMatch(elo).new_rating_a # LastMatch(elo).old_rating_a
    /\ elo.ratings[LastMatch(elo).model_a] = LastMatch(elo).new_rating_a
    /\ elo.ratings[LastMatch(elo).model_b] = LastMatch(elo).new_rating_b

\* The batch size of the register_match_result call logged in c.
CallTotal(c) == c.wins_a + c.wins_b + c.draws

\* The step is a register_match_result call with an empty batch.
EmptyRegistered == call'.op = "register_match_result" /\ CallTotal(call') = 0

\* C11: a register_match_result call with wins_a + wins_b + draws = 0 leaves
\* the ratings map (values and rated models) and the match history as they
\* were.
C11_EmptyBatchNoOp ==
    [][EmptyRegistered =>
         /\ elo'.ratings = elo.ratings
         /\ elo'.match_history = elo.match_history]_vars

\* C11 witness: an empty batch has been registered on a store that already
\* rates two models at unequal ratings.
C11_Witness ==
    /\ call.op = "register_match_result"
    /\ CallTotal(call) = 0
    /\ Len(elo.match_history) = 1
    /\ LastMatch(elo).model_a # LastMatch(elo).model_b
    /\ elo.ratings[LastMatch(elo).model_a] # elo.ratings[LastMatch(elo).model_b]

\* The step is a register_match_result call with a non-empty batch.
BatchRegistered == call'.op = "register_match_result" /\ CallTotal(call') > 0

\* (wins_a + 0.5 * draws) / total for the call logged in c.
CallScore(c) == ((2 * c.wins_a + c.draws) * Scale) \div (2 * CallTotal(c))

\* What C12 says of a step, but for the ratings stored after it: one record
\* is appended to an unchanged history; its old ratings are the ratings
\* before the call, its score is the batch score, its new ratings are
\* old + K * (score - expected); no third model's rating is touched; and
\* from 1400 against 1400 a 10-0-0 batch gives 1416 and 1384.
OneRecordAppended ==
    LET match      == LastMatch(elo')
        expected_a == ExpectedScore(elo, match.model_a, match.model_b)
    IN  /\ Len(elo'.match_history) = Len(elo.match_history) + 1
        /\ SubSeq(elo'.match_history, 1, Len(elo.match_history)) = elo.match_history
        /\ match.old_rating_a = GetRating(elo, match.model_a)
        /\ match.old_rating_b = GetRating(elo, match.model_b)
        /\ match.score_a = CallScore(call')
        /\ match.new_rating_a =
              match.old_rating_a + elo.k_factor * (match.score_a - expected_a)
        /\ match.new_rating_b =
              match.old_rating_b + elo.k_factor * ((Scale - match.score_a) - (Scale - expected_a))
        /\ \A m \in Models \ {match.model_a, match.model_b} :
              /\ m \in DOMAIN elo'.ratings <=> m \in DOMAIN elo.ratings
              /\ GetRating(elo', m) = GetRating(elo, m)
        /\ ( /\ call'.wins_a = 10 /\ call'.wins_b = 0 /\ call'.draws = 0
             /\ elo.k_factor = 32
             /\ match.old_rating_a = 1400 * Scale
             /\ match.old_rating_b = 1400 * Scale )
           => /\ match.new_rating_a = 1416 * Scale
              /\ match.new_rating_b = 1384 * Scale

\* The new ratings of the appended record are the ratings stored by the step.
RecordedRatingsStored ==
    LET match == LastMatch(elo')
    IN  /\ match.model_a \in DOMAIN elo'.ratings
        /\ match.model_b \in DOMAIN elo'.ratings
        /\ elo'.ratings[match.model_a] = match.new_rating_a
        /\ elo'.ratings[match.model_b] = match.new_rating_b

\* C12 as stated: every register_match_result call with a non-empty batch
\* applies one update new = old + K * (score - expected) to each side and
\* appends one record whose old ratings are the ratings before the call and
\* whose new ratings are the ratings stored after it, earlier records
\* unchanged -- for any two arguments.
C12_OneUpdateAnyPair ==
    [][BatchRegistered => (OneRecordAppended /\ RecordedRatingsStored)]_vars

\* C12 amended: the same, the new ratings of the record being the stored
\* ratings for calls whose two arguments are distinct models.
C12_OneUpdateDistinct ==
    [][BatchRegistered =>
         /\ OneRecordAppended
         /\ LastMatch(elo').model_a # LastMatch(elo').model_b => RecordedRatingsStored]_vars

\* C12 witness: the example of the claim has run as a second call -- a
\* 10-0-0 batch between two distinct models both at 1400, stored as 1416
\* and 1384 -- after an earlier record.
C12_Witness ==
    /\ call.op = "register_match_result"
    /\ call.wins_a = 10 /\ call.wins_b = 0 /\ call.draws = 0
    /\ Len(elo.match_history) = 2
    /\ LastMatch(elo).model_a # LastMatch(elo).model_b
    /\ LastMatch(elo).old_rating_a = 1400 * Scale
    /\ LastMatch(elo).old_rating_b = 1400 * Scale
    /\ elo.ratings[LastMatch(elo).model_a] = 1416 * Scale
    /\ elo.ratings[LastMatch(elo).model_b] = 1384 * Scale

\* The distance of expected_score(a, b) + expected_score(b, a) from 1.0 .
SymmetryError(model_a, model_b) ==
    Abs(ExpectedScore(elo, model_a, model_b) + ExpectedScore(elo, model_b, model_a) - Scale)

\* The rounding allowed to a sum of two expected scores: 0.0002 .
ScoreRounding == Scale \div 5000

\* C13: in every reachable store expected_score(a, b) + expected_score(b, a)
\* is 1 (up to the rounding of the two divisions) for every pair of models,
\* and a call of expected_score leaves the store as it was.
C13_ExpectedScoreSymmetry ==
    /\ [](\A model_a \in Models, model_b \in Models :
             SymmetryError(model_a, model_b) <= ScoreRounding)
    /\ [][call'.op = "expected_score" => elo' = elo]_vars

\* C13 witness: expected_score has been called for two distinct models with
\* unequal stored ratings, and has returned the favourite's expectation.
C13_Witness ==
    /\ call.op = "expected_score"
    /\ call.model_a # call.model_b
    /\ call.model_a \in DOMAIN elo.ratings
    /\ call.model_b \in DOMAIN elo.ratings
    /\ elo.ratings[call.model_a] > elo.ratings[call.model_b]
    /\ call.result > Scale \div 2

\* C14: for every reachable rating system, load_ratings applied to the file
\* save_ratings writes for it returns a system with the same ratings,
\* K-factor, starting value, match history (the same records in the same
\* order) and promptset label, whichever
\* promptset argument load_ratings is given.
C14_SaveLoadRoundTrip ==
    \A promptset \in Promptsets : LoadRatings(SaveRatings(elo), promptset) = elo

\* C14 witness: a system whose history holds two different match records,
\* one overall and one of a category, the later one starting from a rating
\* an earlier match produced, has been saved and loaded again under another
\* promptset argument.
C14_Witness ==
    /\ call.op = "load_ratings"
    /\ call.promptset # elo.promptset
    /\ Len(elo.match_history) >= 2
    /\ elo.match_history[1].category # elo.match_history[2].category
    /\ elo.match_history[1].model_a # elo.match_history[2].model_a
    /\ elo.match_history[2].old_rating_a # DEFAULT_STARTING_ELO * Scale
    /\ ratings_file = SaveRatings(elo)

\* C15 as stated: load_ratings of a file that exists and is not readable as
\* JSON returns the system it returns for a file that does not exist: empty
\* ratings and history, default K-factor and starting value, the promptset
\* label it was given.
C15_CorruptAsAbsent ==
    (call.op = "load_ratings" /\ ratings_file.exists /\ ~ratings_file.parses)
        => elo = LoadRatings(AbsentFile, call.promptset)

\* Every recorded match was between two distinct model identifiers.
DistinctOnly ==
    \A i \in 1..Len(elo.match_history) :
        elo.match_history[i].model_a # elo.match_history[i].model_b

\* The sum over the models of S of (rating - starting_elo).
RECURSIVE RatingMass(_)
RatingMass(S) ==
    IF S = {} THEN 0
    ELSE LET m == CHOOSE x \in S : TRUE
         IN  (elo.ratings[m] - elo.starting_elo) + RatingMass(S \ {m})

\* The models that took part in a registered call with total > 0: only
\* those calls are recorded in match_history.
Participants ==
    UNION {{elo.match_history[i].model_a, elo.match_history[i].model_b} :
              i \in 1..Len(elo.match_history)}

\* C28: from a fresh system, after any sequence of register_match_result
\* calls each between two distinct models, the sum over all rated models of
\* (rating - starting_elo) is 0, and the rated models are exactly those that
\* took part in a call with total > 0.
C28_MassConserved ==
    DistinctOnly =>
        /\ RatingMass(DOMAIN elo.ratings) = 0
        /\ DOMAIN elo.ratings = Participants

\* C28 witness: two calls between distinct models have rated three models,
\* none of them left at the starting rating.
C28_Witness ==
    /\ DistinctOnly
    /\ Len(elo.match_history) = 2
    /\ DOMAIN elo.ratings = Models
    /\ \A m \in Models : elo.ratings[m] # elo.starting_elo

\* The system whose every registration comes from the records now in the
\* archive, each read once in the order of files.
RefreshedFromArchive(files) ==
    RegisterResults(EloNew(DEFAULT_K, DEFAULT_STARTING_ELO, DefaultPromptset),
                    LoadResults(archive, files))

\* C24: generate_elo_ratings(force_refresh=True) yields ratings and match
\* history determined by the records now in the archive, each stored outcome
\* counted once; a second forced run on the unchanged archive (same file
\* order) gives the same ratings and the same match history as the first.
C24_ForcedRefreshOfArchiveOnly ==
    [][(call'.op = "generate_elo_ratings" /\ call'.force_refresh) =>
         /\ elo'.ratings = RefreshedFromArchive(call'.files).ratings
         /\ elo'.match_history = RefreshedFromArchive(call'.files).match_history
         /\ (IF call.op = "generate_elo_ratings"
             THEN call.force_refresh /\ call.files = call'.files
             ELSE FALSE)
               => /\ elo'.ratings = elo.ratings
                  /\ elo'.match_history = elo.match_history]_vars

\* C30: for every promptset p, whether or not a ratings file of p exists,
\* the system returned and the system persisted by
\* generate_elo_ratings(promptset=p) carry the promptset label p.
C30_PromptsetLabelKept ==
    [][call'.op = "generate_elo_ratings" =>
         /\ elo'.promptset = call'.promptset
         /\ ratings_file'.exists =>
               LoadRatings(ratings_file', call'.promptset).promptset = call'.promptset]_vars

---------------------------------------------------------------------------
(* Claims about the Bradley-Terry estimator.                               *)

\* fit has returned; bt.strengths[i] is the strength of bt.models[i].
BTFitted == bt.pc = "fitted"

BTIndex == 1..Len(bt.models)

\* Model i has at least one match in the win matrix handed to fit.
BTHasMatch(i) == TotalComparisons(bt.win_matrix, i, Len(bt.models)) > 0

\* Model i has won at least one comparison.
BTHasWin(i) == WinsOf(bt.win_matrix, i) > 0

BTSymmetric ==
    \A i \in BTIndex, j \in BTIndex : bt.win_matrix[i][j] = bt.win_matrix[j][i]

C8_BalancedEqual ==
    (BTFitted /\ BTSymmetric) =>
        \A i \in BTIndex, j \in BTIndex : bt.strengths[i] = bt.strengths[j]

\* C9: a model without any comparison has strength 1/n after every pass
\* of the loop of fit and in the strengths fit returns.
C9_UnmatchedKeepsInitial ==
    \A i \in BTIndex :
        ~BTHasMatch(i) =>
            /\ bt.pc = "fitting" => bt.work[i] = Frac(1, Len(bt.models))
            /\ bt.pc = "fitted" => bt.strengths[i] = Frac(1, Len(bt.models))

\* C27: after fit on any win matrix of non-negative counts with at least two
\* models, probability_matrix() completes without error and returns
\* P[i][j] = strength_i / (strength_i + strength_j) for i # j, with
\* P[i][j] + P[j][i] = 1, and 1/2 on the diagonal.
C27_ProbabilitiesDefined ==
    [][(BTFitted /\ bt' = bt /\ call'.op = "probability_matrix") =>
        /\ call'.result.raised = None
        /\ \A i \in BTIndex, j \in BTIndex :
              LET P == call'.result.matrix
              IN  IF i = j THEN P[i][j] = Frac(1, 2)
                  ELSE /\ P[i][j] = RDiv(bt.strengths[i],
                                         RAdd(bt.strengths[i], bt.strengths[j]))
                       /\ RAdd(P[i][j], P[j][i]) = One]_vars

---------------------------------------------------------------------------
(* Claims about the direct comparison ranking.                             *)

\* The stored record of the pair {a, b}, and the comparisons in it that the
\* model named a won.
RecordOf(a, b) == LoadComparisonResult(archive, a, b)

WinsOfNamed(a, b) ==
    IF RecordOf(a, b).model_a = a THEN OverallWinsA(RecordOf(a, b))
    ELSE OverallWinsB(RecordOf(a, b))

DirectListed == SeqToSet(direct.models)

\* C2: compute_rankings returns False exactly when missing_comparisons is
\* non-empty, and when it returns True every off-diagonal entry of the
\* probability matrix is non-null, also for a stored record without
\* comparisons.
C2_CompletenessGate ==
    direct.called =>
        /\ (~direct.returned) <=> (direct.missing_comparisons # << >>)
        /\ direct.returned =>
              \A a \in DirectListed, b \in DirectListed :
                  a # b => direct.probability_matrix[a][b] # Null

\* C3: when compute_rankings returns True, P(a beats b) is (wins of the
\* model named a + half the ties) / total of the pair, for every ordered
\* pair of listed models, whatever the list order and the record's model_a.
C3_WinProbabilityOfNamed ==
    (direct.called /\ direct.returned) =>
        \A a \in DirectListed, b \in DirectListed :
            (a # b /\ OverallTotal(RecordOf(a, b)) > 0) =>
                direct.probability_matrix[a][b] =
                    Frac(2 * WinsOfNamed(a, b) + OverallTies(RecordOf(a, b)),
                         2 * OverallTotal(RecordOf(a, b)))

\* The positions of missing_comparisons that name the unordered pair {a, b}.
MissingEntries(a, b) ==
    {k \in 1..Len(direct.missing_comparisons) :
        {direct.missing_comparisons[k][1], direct.missing_comparisons[k][2]} = {a, b}}

\* C10: each missing unordered pair is recorded exactly once in
\* missing_comparisons; with models [A, B, C], records for A-B and B-C and
\* none for A-C the call returns False and missing_comparisons = [(A, C)].
C10_MissingRecordedOnce ==
    direct.called =>
        /\ \A a \in DirectListed, b \in DirectListed :
              (a # b /\ RecordOf(a, b) = Null) => Cardinality(MissingEntries(a, b)) = 1
        /\ ( /\ direct.models = <<"A", "B", "C">>
             /\ RecordOf("A", "B") # Null
             /\ RecordOf("B", "C") # Null
             /\ RecordOf("A", "C") = Null )
           => ( /\ ~direct.returned
                /\ direct.missing_comparisons = << <<"A", "C">> >> )

\* C26: whenever the most recent compute_rankings returned False,
\* get_rankings raises the invalid-state error (ValueError) and returns no
\* ranking, also when an earlier compute_rankings on the instance returned
\* True.
C26_NoStaleRanking ==
    [][(call'.op = "get_rankings" /\ direct'.called /\ ~direct'.returned)
          => call'.result.raised = "ValueError"]_vars

---------------------------------------------------------------------------
(* Claims about the win matrix of the archive.                             *)

\* C16: in the matrix build_win_matrix returns, entry [i][j] is the number
\* of comparisons the model named i won against the model named j in the
\* stored record of the pair, whichever of the two the record names as
\* model_a.
C16_WinMatrixOrientation ==
    call.op = "build_win_matrix" =>
        \A i \in SeqToSet(call.models), j \in SeqToSet(call.models) :
            (i # j /\ RecordOf(i, j) # Null) => call.result[i][j] = WinsOfNamed(i, j)

---------------------------------------------------------------------------
(* Claims about the focus ranking.                                         *)

\* The direct ratio of a model against the focus model as the archive gives
\* it: (the model's wins + half the ties) / (the focus model's wins + half
\* the ties), infinite when the denominator is zero.
ArchiveDirectRatio(model) ==
    LET result == RecordOf(focus.focus_model, model)
        focus_wins == 2 * WinsOfNamed(focus.focus_model, model) + OverallTies(result)
        other_wins == 2 * WinsOfNamed(model, focus.focus_model) + OverallTies(result)
    IN  IF focus_wins > 0 THEN Frac(other_wins, focus_wins) ELSE Infinity

\* The product of the edge weights along focus -> via -> model, when the
\* graph has both edges.
HasTwoHopPath(via, model) ==
    /\ via \in ItemKeys(focus.graph[focus.focus_model])
    /\ model \in ItemKeys(focus.graph[via])

TwoHopRatio(via, model) ==
    RMul(ItemGet(focus.graph[focus.focus_model], via), ItemGet(focus.graph[via], model))

\* C4: every model with a direct ratio against the focus model has exactly
\* that direct ratio in the map compute_rankings returns, for every
\* max_depth and whatever transitive paths to the model exist.
C4_DirectPriority ==
    focus.called =>
        \A model \in Models \ {focus.focus_model} :
            RecordOf(focus.focus_model, model) # Null =>
                /\ model \in DOMAIN focus.returned
                /\ focus.returned[model] = ArchiveDirectRatio(model)
                /\ focus.returned[model] = focus.direct_ratios[model]

\* A depth-2 run in which a directly compared model is also reached through
\* the third model with a different product, and keeps its direct ratio.
C4_Witness ==
    /\ focus.called
    /\ focus.max_depth >= 2
    /\ \E model \in Models \ {focus.focus_model} :
         \E via \in Models \ {focus.focus_model, model} :
            /\ RecordOf(focus.focus_model, model) # Null
            /\ HasTwoHopPath(via, model)
            /\ TwoHopRatio(via, model) # ArchiveDirectRatio(model)
            /\ focus.returned[model] = ArchiveDirectRatio(model)

\* The records of the scenario: A-vs-B 7-3-0, B-vs-C 6-2-2, no A-vs-C.
TransitiveScenario ==
    /\ RecordOf("A", "B") # Null
    /\ RecordOf("A", "B").model_a = "A"
    /\ OverallWinsA(RecordOf("A", "B")) = 7
    /\ OverallWinsB(RecordOf("A", "B")) = 3
    /\ OverallTies(RecordOf("A", "B")) = 0
    /\ RecordOf("B", "C") # Null
    /\ RecordOf("B", "C").model_a = "B"
    /\ OverallWinsA(RecordOf("B", "C")) = 6
    /\ OverallWinsB(RecordOf("B", "C")) = 2
    /\ OverallTies(RecordOf("B", "C")) = 2
    /\ RecordOf("A", "C") = Null

\* C5: a model reached only transitively gets the product of the edge
\* weights along its path from the focus model, composing with the direct
\* ratios; in the scenario, FocusRanking("A").compute_rankings(max_depth=2)
\* gives A = 1, B = 3/7 and C = 3/7 times the edge weight from B to C.
C5_TransitiveComposition ==
    (focus.called /\ focus.focus_model = "A" /\ focus.max_depth = 2 /\ TransitiveScenario) =>
        /\ DOMAIN focus.returned = {"A", "B", "C"}
        /\ focus.returned["A"] = One
        /\ focus.returned["B"] = Frac(3, 7)
        /\ focus.returned["C"] = RMul(Frac(3, 7), ItemGet(focus.graph["B"], "C"))

\* The win rate of the model named a in the stored record of the pair
\* {a, b}, ties counted as half a win; 0 for a record without comparisons.
NamedWinRate(a, b) ==
    IF OverallTotal(RecordOf(a, b)) = 0 THEN Zero
    ELSE Frac(2 * WinsOfNamed(a, b) + OverallTies(RecordOf(a, b)),
              2 * OverallTotal(RecordOf(a, b)))

\* C17: after compute_rankings, every model with a stored record against the
\* focus model has the direct ratio (its win rate) / (the focus model's win
\* rate), the rates being those of the named models whichever is model_a in
\* the record, and the ratio is +infinity exactly when the focus model's win
\* rate in the pairing is zero.
C17_DirectRatioSentinel ==
    (focus.called /\ focus.focus_model \in focus.models) =>
        \A model \in Models \ {focus.focus_model} :
            RecordOf(focus.focus_model, model) # Null =>
                LET focus_rate == NamedWinRate(focus.focus_model, model)
                    other_rate == NamedWinRate(model, focus.focus_model)
                IN  /\ model \in DOMAIN focus.direct_ratios
                    /\ focus.direct_ratios[model] = Infinity <=> RIsZero(focus_rate)
                    /\ ~RIsZero(focus_rate) =>
                          focus.direct_ratios[model] = RDiv(other_rate, focus_rate)

\* C17 witness: compute_rankings has run for a focus model that won nothing
\* in one record with comparisons (ratio +infinity) and that is model_b of
\* the record against the third model, with a finite ratio other than 1.
C17_Witness ==
    /\ focus.called
    /\ \E model \in Models \ {focus.focus_model} :
         \E third \in Models \ {focus.focus_model, model} :
            /\ RecordOf(focus.focus_model, model) # Null
            /\ OverallTotal(RecordOf(focus.focus_model, model)) > 0
            /\ focus.direct_ratios[model] = Infinity
            /\ RecordOf(focus.focus_model, third) # Null
            /\ RecordOf(focus.focus_model, third).model_b = focus.focus_model
            /\ focus.direct_ratios[third] \notin {Infinity, One, Zero}

\* Some stored record names the focus model.
FocusRecorded == \E model \in Models \ {focus.focus_model} :
                    RecordOf(focus.focus_model, model) # Null

\* C18: compute_rankings returns an empty map when no outcome record of the
\* scope names the focus model, and otherwise a map that holds the focus
\* model with ratio exactly 1.
C18_FocusAbsentOrPresent ==
    focus.called =>
        IF FocusRecorded
        THEN /\ focus.focus_model \in DOMAIN focus.returned
             /\ focus.returned[focus.focus_model] = One
        ELSE focus.returned = << >>

\* The graph has the edge u -> v, and its weight.
HasEdge(u, v) == v \in ItemKeys(focus.graph[u])

EdgeWeight(u, v) == ItemGet(focus.graph[u], v)

\* C21: an edge of the win-ratio graph joins only two models whose stored
\* record gives both a non-zero win rate; every edge weight is strictly
\* positive and finite; and the edge u -> v exists exactly when v -> u does.
C21_EdgesBothSides ==
    \A u \in Models, v \in Models :
        HasEdge(u, v) =>
            /\ RecordOf(u, v) # Null
            /\ ~RIsZero(NamedWinRate(u, v))
            /\ ~RIsZero(NamedWinRate(v, u))
            /\ RPositive(EdgeWeight(u, v))
            /\ EdgeWeight(u, v) # Infinity
            /\ HasEdge(v, u)

\* C22: for every edge u -> v between two models with non-zero win rates,
\* graph[u][v] is (win rate of v against u) / (win rate of u against v), the
\* rates being those of the named models whichever is model_a in the record;
\* hence graph[F][M] is the direct ratio of M for a model M compared with the
\* focus model F.
C22_EdgeOrientation ==
    \A u \in Models, v \in Models :
        ( /\ HasEdge(u, v)
          /\ ~RIsZero(NamedWinRate(u, v))
          /\ ~RIsZero(NamedWinRate(v, u)) ) =>
            /\ EdgeWeight(u, v) = RDiv(NamedWinRate(v, u), NamedWinRate(u, v))
            /\ (focus.called /\ u = focus.focus_model) =>
                  EdgeWeight(u, v) = focus.direct_ratios[v]

\* The models within k edges of start in the graph.
RECURSIVE ReachedWithin(_, _)
ReachedWithin(start, k) ==
    IF k = 0 THEN {start}
    ELSE LET nearer == ReachedWithin(start, k - 1)
         IN  nearer \cup {v \in Models : \E u \in nearer : HasEdge(u, v)}

\* C23: for every max_depth >= 1 and every start, _find_paths returns a path
\* for exactly the models within max_depth edges of start; each path starts
\* at start, ends at its model, follows edges of the graph, has at most
\* max_depth edges, and no path to its model has fewer edges.
C23_ShortestPaths ==
    \A start \in Models, max_depth \in 1..MaxDepth :
        LET paths == FindPaths(focus, start, max_depth)
        IN  /\ DOMAIN paths = ReachedWithin(start, max_depth)
            /\ \A model \in DOMAIN paths :
                  LET path == paths[model]
                  IN  /\ path[1] = start
                      /\ path[Len(path)] = model
                      /\ \A i \in 1..(Len(path) - 1) : HasEdge(path[i], path[i + 1])
                      /\ Len(path) - 1 <= max_depth
                      /\ Len(path) >= 2 => model \notin ReachedWithin(start, Len(path) - 2)

\* C23 witness: compute_rankings has searched the graph to depth 2 or more
\* and given a transitive ratio to a model that is two edges from the focus
\* model and out of reach at depth 1.
C23_Witness ==
    /\ focus.called
    /\ focus.max_depth >= 2
    /\ \E model \in DOMAIN focus.transitive_ratios :
         /\ Len(FindPaths(focus, focus.focus_model, 2)[model]) = 3
         /\ model \notin DOMAIN FindPaths(focus, focus.focus_model, 1)
         /\ model \in DOMAIN focus.returned

\* C25: the map compute_rankings returns depends only on the archive, the
\* focus model and max_depth -- it is the map a newly constructed instance
\* returns -- and with max_depth = 1 it holds only the focus model and the
\* models with a direct ratio, whatever calls the instance served before.
C25_FreshEachInvocation ==
    focus.called =>
        /\ \E files \in Orderings(ComparisonFiles(archive)) :
              focus.returned =
                  FocusComputeRankings(FocusNew(focus.focus_model), archive, files,
                                       focus.max_depth).returned
        /\ focus.max_depth = 1 =>
              \A model \in (DOMAIN focus.returned) \ {focus.focus_model} :
                  RecordOf(focus.focus_model, model) # Null

---------------------------------------------------------------------------
(* Claims about the confidence analyzer.                                   *)

SuggestedPair(i) == {analyzer.suggestions[i].model_a, analyzer.suggestions[i].model_b}

\* C6: in the list generate_suggestions returns no unordered model pair
\* appears in more than one entry, for any parameters and any archive, even
\* when the pair qualifies under several criteria or several categories.
C6_NoPairTwice ==
    analyzer.called =>
        \A i \in 1..Len(analyzer.suggestions), j \in 1..Len(analyzer.suggestions) :
            i # j => SuggestedPair(i) # SuggestedPair(j)

\* The number of comparisons the archive holds for a pair in a category.
ArchiveCategoryCount(pair, category) == CategoryTotal(archive[pair], category)

\* A call with room for three suggestions in which one compared pair is at
\* once low-confidence, close in rating and short in both categories, and
\* is suggested.
C6_Witness ==
    /\ analyzer.called
    /\ analyzer.max_suggestions >= 3
    /\ elo # Null
    /\ \E pair \in PairKeys :
          /\ archive[pair] # Null
          /\ NumComparisons(archive[pair]) < analyzer.min_comparisons
          /\ Abs(GetRating(elo, pair[1]) - GetRating(elo, pair[2]))
                <= analyzer.max_rating_diff * Scale
          /\ \A category \in CategorySet :
                ArchiveCategoryCount(pair, category) < analyzer.min_per_category
          /\ \E i \in 1..Len(analyzer.suggestions) :
                /\ SuggestedPair(i) = {pair[1], pair[2]}
                /\ analyzer.suggestions[i].priority = 2

\* C19: generate_suggestions returns at most max_suggestions entries, for
\* every max_suggestions >= 0, and the priorities along the returned list
\* never decrease.
C19_CapAndOrder ==
    analyzer.called =>
        /\ Len(analyzer.suggestions) <= analyzer.max_suggestions
        /\ \A i \in 1..Len(analyzer.suggestions), j \in 1..Len(analyzer.suggestions) :
              i < j => analyzer.suggestions[i].priority <= analyzer.suggestions[j].priority

\* C19 witness: a call with max_suggestions = 2 on an analyzer with one
\* missing pair and two pairs below min_comparisons has returned the missing
\* pair and the first low-confidence pair, the cap cutting the second.
C19_Witness ==
    /\ analyzer.called
    /\ analyzer.max_suggestions = 2
    /\ Len(GetMissingComparisons(analyzer)) = 1
    /\ Len(GetLowConfidencePairs(analyzer, analyzer.min_comparisons)) = 2
    /\ Len(analyzer.suggestions) = 2
    /\ analyzer.suggestions[1].priority = 1
    /\ analyzer.suggestions[2].priority = 2

\* The positions of the returned list that hold the pair with the count.
LowConfidenceEntries(pair, count) ==
    {i \in 1..Len(call.result) : call.result[i] = <<pair[1], pair[2], count>>}

\* C20: get_low_confidence_pairs(min_comparisons) returns exactly the tracked
\* pairs whose count satisfies 0 < count < min_comparisons, each once, in
\* ascending order of count.
C20_LowConfidencePairs ==
    call.op = "get_low_confidence_pairs" =>
        /\ \A i \in 1..Len(call.result) :
              LET pair == <<call.result[i][1], call.result[i][2]>>
              IN  /\ pair \in ItemKeys(analyzer.comparisons)
                  /\ ItemGet(analyzer.comparisons, pair) = call.result[i][3]
                  /\ 0 < call.result[i][3]
                  /\ call.result[i][3] < call.min_comparisons
        /\ \A pair \in ItemKeys(analyzer.comparisons) :
              LET count == ItemGet(analyzer.comparisons, pair)
              IN  (0 < count /\ count < call.min_comparisons) =>
                      Cardinality(LowConfidenceEntries(pair, count)) = 1
        /\ \A i \in 1..Len(call.result), j \in 1..Len(call.result) :
              i < j => call.result[i][3] <= call.result[j][3]

\* The pair is in the list a criterion's query returns, in either order.
PairListed(pair, list) == \E i \in 1..Len(list) : {list[i][1], list[i][2]} = pair

\* The criteria a pair qualifies for under the thresholds of the call, by
\* the full lists of the four queries.
QualifiesMissing(pair) == PairListed(pair, GetMissingComparisons(analyzer))

QualifiesLowConfidence(pair) ==
    PairListed(pair, GetLowConfidencePairs(analyzer, analyzer.min_comparisons))

QualifiesCloseRating(pair) ==
    /\ analyzer.elo_ratings # Null
    /\ PairListed(pair, GetCloseRatingPairs(analyzer, analyzer.max_rating_diff))

QualifiesCategoryGap(pair) ==
    \E category \in CategorySet :
        PairListed(pair, GetCategoryGaps(analyzer, analyzer.min_per_category, category))

\* The highest priority (lowest number) among the criteria of a pair.
BestPriority(pair) ==
    IF QualifiesMissing(pair) THEN 1
    ELSE IF QualifiesLowConfidence(pair) THEN 2
    ELSE IF QualifiesCloseRating(pair) THEN 3
    ELSE 4

\* C29: for every max_suggestions >= 0, every pair in the list returned by
\* generate_suggestions is tagged with the highest priority among the
\* criteria it qualifies for; truncating each criterion's list before
\* merging never makes a pair appear at a lower priority.
C29_BestPriority ==
    analyzer.called =>
        \A i \in 1..Len(analyzer.suggestions) :
            analyzer.suggestions[i].priority = BestPriority(SuggestedPair(i))

\* C29 witness: the low-confidence list was longer than max_suggestions, so
\* it was truncated, and a returned pair tagged low confidence also
\* qualifies as a close-rating pair and as a category gap.
C29_Witness ==
    /\ analyzer.called
    /\ analyzer.max_suggestions >= 1
    /\ Len(GetLowConfidencePairs(analyzer, analyzer.min_comparisons))
           > analyzer.max_suggestions
    /\ \E i \in 1..Len(analyzer.suggestions) :
          /\ analyzer.suggestions[i].priority = 2
          /\ QualifiesCloseRating(SuggestedPair(i))
          /\ QualifiesCategoryGap(SuggestedPair(i))

=============================================================================
